---- MODULE Spec2Model ----
(***************************************************************************)
(* Model of the clip pipeline of yt-clipper-rust: fetch_heatmap,           *)
(* get_duration, process_clip and full_process (src/src/lib.rs), the crop  *)
(* filter of CropMode (src/src/crop.rs) and process_subtitle,              *)
(* parse_whisper_json, generate_ass_with_word_highlight and                *)
(* format_ass_time (src/src/subtitle.rs).                                  *)
(*                                                                         *)
(* Units.  The code works on f64 seconds obtained from millisecond fields  *)
(* by a division by 1000.0; the model keeps every time in milliseconds, so *)
(* that this division is exact: 60.0 s is 60000, 10.0 s is 10000, 3.0 s is *)
(* 3000 and a total duration of d seconds is d * 1000.  Scores are kept in *)
(* hundredths: 0.40 is 40.                                                 *)
(***************************************************************************)
EXTENDS Integers, Sequences, FiniteSets, TLC

VARIABLES
    options,          \* ProcessOptions: crop_mode, subtitle.enabled
    pc,               \* position of full_process / process_clip
    page,             \* the document fetched by fetch_heatmap
    segments,         \* Vec<HeatmapSegment> returned by fetch_heatmap
    duration,         \* get_duration result, in seconds
    i,                \* number of candidates taken from `segments` so far
    success_count,    \* full_process: success_count
    generated_files,  \* full_process: generated_files
    window,           \* process_clip: start / end of the current candidate
    state,            \* state of the current candidate (spec section 4.7)
    stages,           \* external stages run for the current candidate
    files,            \* files named with the current index
    frame,            \* width and height of the last cropped file
    invoked,          \* history: external media tools invoked in this run
    visited,          \* history: candidates handed to process_clip
    crop_ok_count,    \* history: candidates whose crop succeeded
    final_count,      \* history: candidates that reached a success state
    failure,          \* history: the fatal condition met by the run, if any
    crop_cmd,         \* arguments of the last crop command of process_clip
    artifact,         \* the transcription document given to parse_whisper_json
    parsed,           \* Result<Vec<TimedWord>> of parse_whisper_json
    words,            \* the words given to generate_ass_with_word_highlight
    phrases,          \* generate_ass_with_word_highlight: phrases
    events,           \* the Dialogue events written for `phrases`
    seconds,          \* the argument of format_ass_time
    ass_time,         \* the string returned by format_ass_time
    payload,          \* the request received by process_handler
    reply,            \* the response of process_handler
    whisper,          \* generate_subtitle_whisper_cpp: position, runs, result
    jobs,             \* the runs of full_process served at the same time
    touched           \* history: the files each of these runs has used

vars == << options, pc, page, segments, duration, i, success_count,
           generated_files, window, state, stages, files, frame, invoked,
           visited, crop_ok_count, final_count, failure, crop_cmd,
           artifact, parsed, words, phrases, events, seconds, ass_time,
           payload, reply, whisper, jobs, touched >>

\* the state of the subtitle functions, which the pipeline steps leave alone
subtitle_vars == << artifact, parsed, words, phrases, events, seconds, ass_time >>

\* the state of the service boundary and of the word-level backend, which
\* the steps of a run leave alone
service_vars == << payload, reply, whisper, jobs, touched >>

(***************************************************************************)
(* Program constants                                                       *)
(***************************************************************************)
MIN_SCORE == 40
MAX_DURATION == 60000
PADDING == 10000
MAX_CLIPS == 10
MIN_WINDOW == 3000

TOP_HEIGHT == 960
BOTTOM_HEIGHT == 350
OUTPUT_WIDTH == 720
OUTPUT_HEIGHT == 1280

(***************************************************************************)
(* Bounds of the model                                                     *)
(***************************************************************************)
MaxMarkers == 3       \* length of the marker arrays of SpecHeatmap
MaxCandidates == 12   \* length of the marker arrays of Spec
MaxRejected == 2      \* markers of a long array that lie past the end
MaxShort == 2         \* length of the mixed marker arrays of Spec
MaxSegments == 2      \* segments of a transcription document
MaxTokens == 2        \* tokens of a segment
MaxWords == 4         \* words given to the grouper
MaxMillis == 1200     \* times up to this many milliseconds are formatted

Max(a, b) == IF a >= b THEN a ELSE b
Min(a, b) == IF a <= b THEN a ELSE b

(***************************************************************************)
(* JSON values of a marker field.  A field is absent, a number, a string   *)
(* (kept as its characters) or another JSON value.  Str(n) is the string   *)
(* that writes the number n in decimal.                                    *)
(***************************************************************************)
Digit(n) == << "0", "1", "2", "3", "4", "5", "6", "7", "8", "9" >>[n + 1]

\* "{}" of an unsigned integer
RECURSIVE display(_)
display(n) == IF n < 10 THEN << Digit(n) >> ELSE Append(display(n \div 10), Digit(n % 10))

Absent == [k |-> "absent", v |-> 0, s |-> << >>]
Num(n) == [k |-> "num", v |-> n, s |-> << >>]
StrOf(text) == [k |-> "str", v |-> 0, s |-> text]
Str(n) == StrOf(display(n))
BadStr == StrOf(<< "n", "/", "a" >>)
Other == [k |-> "other", v |-> 0, s |-> << >>]

IsDigit(c) == \E d \in 0..9 : Digit(d) = c
DigitValue(c) == CHOOSE d \in 0..9 : Digit(d) = c

RECURSIVE DigitsValue(_, _)
DigitsValue(text, acc) ==
    IF text = << >> THEN acc
    ELSE DigitsValue(Tail(text), acc * 10 + DigitValue(Head(text)))

AllDigits(text) == text # << >> /\ \A k \in 1..Len(text) : IsDigit(text[k])

\* str::parse::<f64>() on the writings of an integer: an optional sign and
\* digits; no surrounding whitespace, no other character
parse_f64(text) ==
    IF AllDigits(text) THEN << DigitsValue(text, 0) >>
    ELSE IF text # << >> /\ Head(text) \in {"+", "-"} /\ AllDigits(Tail(text))
         THEN << (IF Head(text) = "-" THEN -1 ELSE 1) * DigitsValue(Tail(text), 0) >>
         ELSE << >>

parse_val_StringsRejected(v) ==
    CASE v.k = "num" -> << v.v >>
      [] OTHER -> << >>

\* Option<f64> is a sequence of length 0 (None) or 1 (Some)
parse_val(v) ==
    CASE v.k = "num" -> << v.v >>
      [] v.k = "str" -> parse_f64(v.s)
      [] OTHER -> << >>

unwrap_or(opt, d) == IF Len(opt) = 0 THEN d ELSE opt[1]

Fields(s, d, sc) ==
    [startMillis |-> s, durationMillis |-> d, intensityScoreNormalized |-> sc]

\* a marker is a flat object, or an object wrapping a heatMarkerRenderer
Flat(s, d, sc) == [hasRenderer |-> FALSE, renderer |-> Fields(s, d, sc),
                   own |-> Fields(s, d, sc)]
Wrapped(s, d, sc) == [hasRenderer |-> TRUE, renderer |-> Fields(s, d, sc),
                      own |-> Fields(Absent, Absent, Absent)]

MarkerData(marker) ==
    IF marker.hasRenderer THEN marker.renderer ELSE marker.own

HasAllFields(data) ==
    /\ data.startMillis.k # "absent"
    /\ data.durationMillis.k # "absent"
    /\ data.intensityScoreNormalized.k # "absent"

MarkerScore(data) == unwrap_or(parse_val(data.intensityScoreNormalized), 0)

\* the segment pushed for a marker; `src` is a history field holding the
\* position of the marker in the received array
SegmentOf(data, k) ==
    [start |-> unwrap_or(parse_val(data.startMillis), 0),
     duration |-> Min(unwrap_or(parse_val(data.durationMillis), 0), MAX_DURATION),
     score |-> MarkerScore(data),
     src |-> k]

Keeps_NoThreshold(marker) == HasAllFields(MarkerData(marker))

\* the marker has the three fields and score >= MIN_SCORE
Keeps(marker) ==
    /\ HasAllFields(MarkerData(marker))
    /\ MarkerScore(MarkerData(marker)) >= MIN_SCORE

RECURSIVE CollectFrom(_, _)
CollectFrom(markers, k) ==
    IF k > Len(markers) THEN << >>
    ELSE IF Keeps(markers[k])
         THEN << SegmentOf(MarkerData(markers[k]), k) >> \o CollectFrom(markers, k + 1)
         ELSE CollectFrom(markers, k + 1)

GoesBefore_Strict(a, b) == a.score > b.score

\* b.score.partial_cmp(&a.score): a goes before b when its score is not lower
GoesBefore(a, b) == a.score >= b.score

\* slice::sort_by is a stable sort: x is placed after every element that
\* does not compare greater than it
RECURSIVE InsertSorted(_, _)
InsertSorted(sorted, x) ==
    IF sorted = << >> THEN << x >>
    ELSE IF GoesBefore(Head(sorted), x)
         THEN << Head(sorted) >> \o InsertSorted(Tail(sorted), x)
         ELSE << x >> \o sorted

RECURSIVE sort_by(_)
sort_by(results) ==
    IF results = << >> THEN << >>
    ELSE InsertSorted(sort_by(SubSeq(results, 1, Len(results) - 1)),
                      results[Len(results)])

fetch_heatmap(markers) == sort_by(CollectFrom(markers, 1))

(***************************************************************************)
(* crop.rs: the filter of a crop mode.  The filter text is kept as its     *)
(* structure: the scale node, the crop nodes (one for the plain chain, top *)
(* and bottom for the split graph) and whether the crops are stacked.  An  *)
(* offset expression (iw-720)/2 is [base |-> "iw", minus |-> 720,          *)
(* div |-> 2]; [base |-> "", ...] is an offset left to the tool's default. *)
(***************************************************************************)
CropModes == {"Default", "SplitLeft", "SplitRight"}

Expr(b, m, d) == [base |-> b, minus |-> m, div |-> d]
CropNode(w, h, x, y) == [w |-> w, h |-> h, x |-> x, y |-> y]

get_ffmpeg_filter_RightBottomFromTop(mode) ==
    CASE mode = "Default" ->
           [scale |-> << OUTPUT_WIDTH, OUTPUT_HEIGHT >>,
            crops |-> << CropNode(OUTPUT_WIDTH, OUTPUT_HEIGHT,
                                  Expr("", 0, 1), Expr("", 0, 1)) >>,
            vstack |-> 0]
      [] mode = "SplitLeft" ->
           [scale |-> << -2, OUTPUT_HEIGHT >>,
            crops |-> << CropNode(OUTPUT_WIDTH, TOP_HEIGHT,
                                  Expr("iw", OUTPUT_WIDTH, 2), Expr("ih", TOP_HEIGHT, 2)),
                         CropNode(OUTPUT_WIDTH, BOTTOM_HEIGHT,
                                  Expr("0", 0, 1), Expr("ih", BOTTOM_HEIGHT, 1)) >>,
            vstack |-> 2]
      [] mode = "SplitRight" ->
           [scale |-> << -2, OUTPUT_HEIGHT >>,
            crops |-> << CropNode(OUTPUT_WIDTH, TOP_HEIGHT,
                                  Expr("iw", OUTPUT_WIDTH, 2), Expr("ih", TOP_HEIGHT, 2)),
                         CropNode(OUTPUT_WIDTH, BOTTOM_HEIGHT,
                                  Expr("iw", OUTPUT_WIDTH, 1), Expr("ih", TOP_HEIGHT, 1)) >>,
            vstack |-> 2]

get_ffmpeg_filter(mode) ==
    CASE mode = "Default" ->
           [scale |-> << OUTPUT_WIDTH, OUTPUT_HEIGHT >>,
            crops |-> << CropNode(OUTPUT_WIDTH, OUTPUT_HEIGHT,
                                  Expr("", 0, 1), Expr("", 0, 1)) >>,
            vstack |-> 0]
      [] mode = "SplitLeft" ->
           [scale |-> << -2, OUTPUT_HEIGHT >>,
            crops |-> << CropNode(OUTPUT_WIDTH, TOP_HEIGHT,
                                  Expr("iw", OUTPUT_WIDTH, 2), Expr("ih", TOP_HEIGHT, 2)),
                         CropNode(OUTPUT_WIDTH, BOTTOM_HEIGHT,
                                  Expr("0", 0, 1), Expr("ih", BOTTOM_HEIGHT, 1)) >>,
            vstack |-> 2]
      [] mode = "SplitRight" ->
           [scale |-> << -2, OUTPUT_HEIGHT >>,
            crops |-> << CropNode(OUTPUT_WIDTH, TOP_HEIGHT,
                                  Expr("iw", OUTPUT_WIDTH, 2), Expr("ih", TOP_HEIGHT, 2)),
                         CropNode(OUTPUT_WIDTH, BOTTOM_HEIGHT,
                                  Expr("iw", OUTPUT_WIDTH, 1), Expr("ih", BOTTOM_HEIGHT, 1)) >>,
            vstack |-> 2]

is_complex_filter_OnlyLeft(mode) == mode = "SplitLeft"

is_complex_filter(mode) == mode \in {"SplitLeft", "SplitRight"}

\* the filter arguments of the crop command that process_clip assembles
NoCommand ==
    [flag |-> "", filter |-> [scale |-> << 0, 0 >>, crops |-> << >>, vstack |-> 0],
     maps |-> << >>]

crop_command(mode) ==
    IF is_complex_filter(mode)
    THEN [flag |-> "-filter_complex", filter |-> get_ffmpeg_filter(mode),
          maps |-> << "[out]", "0:a?" >>]
    ELSE [flag |-> "-vf", filter |-> get_ffmpeg_filter(mode), maps |-> << >>]

\* the frame the transcoder writes for a filter: the size of the single crop
\* of a chain, or the crops of a graph stacked one over the other
RECURSIVE SumHeights(_)
SumHeights(crops) ==
    IF crops = << >> THEN 0 ELSE Head(crops).h + SumHeights(Tail(crops))

FrameOf(filter) == << filter.crops[1].w, SumHeights(filter.crops) >>

(***************************************************************************)
(* lib.rs: extract_video_id on the shapes of a source reference            *)
(***************************************************************************)
Urls ==
    [parses : BOOLEAN,
     host : {"youtu.be", "www.youtube.com", "example.com"},
     path : {"/watch", "/shorts/", "/other"},
     has_v : BOOLEAN]

\* TRUE when extract_video_id returns Some
extract_video_id(url) ==
    /\ url.parses
    /\ \/ url.host = "youtu.be"
       \/ /\ url.host = "www.youtube.com"
          /\ \/ url.path = "/watch" /\ url.has_v
             \/ url.path = "/shorts/"

(***************************************************************************)
(* lib.rs: the window of process_clip                                      *)
(***************************************************************************)
WindowOf_EndNotClamped(segment, total_duration) ==
    [start |-> Max(segment.start - PADDING, 0),
     end |-> segment.start + segment.duration + PADDING]

WindowOf(segment, total_duration) ==
    [start |-> Max(segment.start - PADDING, 0),
     end |-> Min(segment.start + segment.duration + PADDING, total_duration * 1000)]

WindowRejected_OnlyEmpty(w) == w.end - w.start <= 0

WindowRejected(w) == w.end - w.start < MIN_WINDOW

(***************************************************************************)
(* The files named with one index: temp_n.mp4, temp_cropped_n.mp4, the     *)
(* subtitle file temp_n.ass / .srt and clip_n.mp4 of the output directory. *)
(* A field holds what the file contains, "none" when it does not exist.    *)
(* The index of a run only grows and the run names files of the current    *)
(* index only, so the files of the lower indices are not kept.             *)
(***************************************************************************)
NoFiles(n) ==
    [index |-> n, temp |-> "none", cropped |-> "none", sub |-> "none", clip |-> "none"]

\* fs::rename(from -> clip): moves the file when it succeeds, changes
\* nothing when it fails
rename_cropped(f, ok) ==
    IF ok /\ f.cropped # "none"
    THEN [f EXCEPT !.clip = f.cropped, !.cropped = "none"]
    ELSE f

\* process_subtitle's fs::rename(cropped_file, output_file)? followed by the
\* Err arm of process_clip: a failed rename is retried once, its outcome is
\* dropped and the clip is reported as generated while the cropped file exists
FinishByRename(f, r1, r2) ==
    IF r1 /\ f.cropped # "none"
    THEN [files |-> rename_cropped(f, TRUE), success |-> TRUE]
    ELSE IF f.cropped # "none"
         THEN [files |-> rename_cropped(f, r2), success |-> TRUE]
         ELSE [files |-> f, success |-> FALSE]

SuccessStates == {"Finalized", "FinalizedWithoutCaption"}
TerminalStates == SuccessStates \cup {"Skipped"}

(***************************************************************************)
(* Inputs                                                                  *)
(***************************************************************************)
RECURSIVE SeqsUpTo(_, _)
SeqsUpTo(S, n) ==
    IF n = 0 THEN {<< >>}
    ELSE LET shorter == SeqsUpTo(S, n - 1)
         IN shorter \cup {Append(q, x) : q \in {r \in shorter : Len(r) = n - 1}, x \in S}

\* with a total duration of 100 s: Good gives the window [0, 20], NearEnd the
\* window [75, 100], Edge the window [98, 100] and Late start 190 > end 100
Good == Flat(Num(5000), Num(5000), Num(90))
Late == Flat(Num(200000), Num(5000), Num(90))
Edge == Flat(Num(108000), Num(1000), Num(95))
NearEnd == Flat(Num(85000), Num(20000), Num(60))

CountOf(q, m) == Cardinality({k \in 1..Len(q) : q[k] = m})

\* the marker arrays of Spec: short arrays of every kind, and the arrays of
\* MaxCandidates markers of which at most MaxRejected lie past the end
PipelineMarkers ==
    SeqsUpTo({Good, Late, Edge, NearEnd}, MaxShort)
    \cup {q \in SeqsUpTo({Good, Late}, MaxCandidates) :
              Len(q) = MaxCandidates /\ CountOf(q, Late) <= MaxRejected}

HeatmapMarkerSet ==
    { Flat(Num(0), Num(5000), Num(90)),
      Flat(Str(20000), Num(70000), Str(40)),
      Flat(Num(30000), Num(60000), Num(39)),
      Flat(Num(40000), Num(4000), BadStr),
      Flat(BadStr, Other, Num(90)),
      Wrapped(Num(50000), Str(61000), Num(50)),
      Flat(Num(60000), Absent, Num(95)),
      Flat(Num(70000), Num(2000), Str(40)),
      Flat(StrOf(<< " ", "5" >>), StrOf(<< "+", "9", "0", "0" >>), StrOf(<< "0", "9", "0" >>)) }

HeatmapMarkers == SeqsUpTo(HeatmapMarkerSet, MaxMarkers)

NoPage == [kind |-> "none", markers |-> << >>]
FailedPages == {[kind |-> k, markers |-> << >>] : k \in {"network_error", "no_markers", "bad_json"}}
PagesOf(family) == FailedPages \cup {[kind |-> "ok", markers |-> m] : m \in family}

Durations == {0, 100}

(***************************************************************************)
(* subtitle.rs: the transcription document and parse_whisper_json          *)
(***************************************************************************)
(* A text is the sequence of its characters.  A JSON string field is       *)
(* absent, a string, or another JSON value; an integer field reuses the    *)
(* values of a marker field, of which as_i64 accepts a JSON integer only.  *)
(* Times are in milliseconds: t0 / 100.0 seconds is t0 * 10 and            *)
(* from / 1000.0 seconds is from.                                          *)
(***************************************************************************)
Whitespace == {" ", "\t", "\n"}

RECURSIVE trim_start(_)
trim_start(text) ==
    IF text # << >> /\ Head(text) \in Whitespace THEN trim_start(Tail(text))
    ELSE text

RECURSIVE trim_end(_)
trim_end(text) ==
    IF text # << >> /\ text[Len(text)] \in Whitespace
    THEN trim_end(SubSeq(text, 1, Len(text) - 1))
    ELSE text

trim(text) == trim_end(trim_start(text))

is_empty(text) == Len(text) = 0
starts_with(text, c) == Len(text) > 0 /\ text[1] = c
ends_with(text, c) == Len(text) > 0 /\ text[Len(text)] = c

\* str::split_whitespace: the maximal runs of characters that are no whitespace
RECURSIVE SplitFrom(_, _, _)
SplitFrom(text, run, acc) ==
    IF text = << >>
    THEN IF run = << >> THEN acc ELSE Append(acc, run)
    ELSE IF Head(text) \in Whitespace
         THEN SplitFrom(Tail(text), << >>,
                        IF run = << >> THEN acc ELSE Append(acc, run))
         ELSE SplitFrom(Tail(text), Append(run, Head(text)), acc)

split_whitespace(text) == SplitFrom(text, << >>, << >>)

NoStr == [k |-> "absent", s |-> << >>]
NotStr == [k |-> "other", s |-> << >>]
JStr(text) == [k |-> "string", s |-> text]

\* Option<&str> and Option<i64>: a sequence of length 0 (None) or 1 (Some)
as_str(v) == IF v.k = "string" THEN << v.s >> ELSE << >>
as_i64(v) == IF v.k = "num" THEN << v.v >> ELSE << >>

\* a token of a segment: text, t0, t1 and offsets.from, offsets.to
Token(text, t0, t1, from, to) ==
    [text |-> text, t0 |-> t0, t1 |-> t1, offsets |-> [from |-> from, to |-> to]]

\* a timestamp string "hh:mm:ss,mmm" is kept as its parts between colons,
\* each one the number it parses to or unparsable; the last part, seconds
\* with a decimal comma or point, is kept in milliseconds
Part(n) == [ok |-> TRUE, v |-> n]
BadPart == [ok |-> FALSE, v |-> 0]
Timestamp(parts) == [k |-> "string", s |-> parts]

parse_ts(parts) ==
    IF Len(parts) = 3 /\ \A k \in 1..3 : parts[k].ok
    THEN << parts[1].v * 3600000 + parts[2].v * 60000 + parts[3].v >>
    ELSE << >>

\* a segment: tokens (an array or not), text, timestamps.from, timestamps.to
NoTokens == [k |-> "absent", items |-> << >>]
Tokens(q) == [k |-> "array", items |-> q]
Segment(tokens, text, from, to) ==
    [tokens |-> tokens, text |-> text, timestamps |-> [from |-> from, to |-> to]]

NoArtifact == [kind |-> "none", transcription |-> NoTokens]
NotParsed == [status |-> "none", words |-> << >>, srcs |-> << >>]

TimedWord(text, start, end) == [text |-> text, start |-> start, end |-> end]

\* the filter of the token formats
keeps_token(text) ==
    ~is_empty(text) /\ ~starts_with(text, "[") /\ ~starts_with(text, "<")

\* the filter of the segment-level fallback
keeps_segment_word(text) == ~is_empty(text) /\ ~starts_with(text, "[")

\* the word of one token: Option<TimedWord>
token_word_OffsetsFirst(token) ==
    LET text == as_str(token.text)
        t0 == as_i64(token.t0)
        t1 == as_i64(token.t1)
        from == as_i64(token.offsets.from)
        to == as_i64(token.offsets.to)
    IN IF Len(text) = 1 /\ Len(from) = 1 /\ Len(to) = 1
       THEN IF keeps_token(trim(text[1]))
            THEN << TimedWord(trim(text[1]), from[1], to[1]) >>
            ELSE << >>
       ELSE IF Len(text) = 1 /\ Len(t0) = 1 /\ Len(t1) = 1
            THEN IF keeps_token(trim(text[1]))
                 THEN << TimedWord(trim(text[1]), t0[1] * 10, t1[1] * 10) >>
                 ELSE << >>
            ELSE << >>

token_word(token) ==
    LET text == as_str(token.text)
        t0 == as_i64(token.t0)
        t1 == as_i64(token.t1)
        from == as_i64(token.offsets.from)
        to == as_i64(token.offsets.to)
    IN IF Len(text) = 1 /\ Len(t0) = 1 /\ Len(t1) = 1
       THEN IF keeps_token(trim(text[1]))
            THEN << TimedWord(trim(text[1]), t0[1] * 10, t1[1] * 10) >>
            ELSE << >>
       ELSE IF Len(text) = 1 /\ Len(from) = 1 /\ Len(to) = 1
            THEN IF keeps_token(trim(text[1]))
                 THEN << TimedWord(trim(text[1]), from[1], to[1]) >>
                 ELSE << >>
            ELSE << >>

\* a word of the result with the place of its entry in the document:
\* << segment, token >> or << segment, word of the segment text >>
Entry(word, si, k) == [w |-> word, src |-> << si, k >>]

RECURSIVE token_entries(_, _, _)
token_entries(tokens, si, k) ==
    IF k > Len(tokens) THEN << >>
    ELSE LET word == token_word(tokens[k])
         IN (IF word = << >> THEN << >> ELSE << Entry(word[1], si, k) >>)
                \o token_entries(tokens, si, k + 1)

\* the loop over segment_words; idx counts from 0 as enumerate() does.  The
\* division of the duration is exact on the segments drawn below.
RECURSIVE segment_word_entries_EndBeforeStart(_, _, _, _, _)
segment_word_entries_EndBeforeStart(segment_words, start, word_duration, si, idx) ==
    IF idx >= Len(segment_words) THEN << >>
    ELSE LET word_text == trim(segment_words[idx + 1])
         IN (IF keeps_segment_word(word_text)
             THEN << Entry(TimedWord(word_text,
                                     start + (idx + 1) * word_duration,
                                     start + idx * word_duration), si, idx + 1) >>
             ELSE << >>)
                \o segment_word_entries_EndBeforeStart(segment_words, start,
                                                       word_duration, si, idx + 1)

RECURSIVE segment_word_entries(_, _, _, _, _)
segment_word_entries(segment_words, start, word_duration, si, idx) ==
    IF idx >= Len(segment_words) THEN << >>
    ELSE LET word_text == trim(segment_words[idx + 1])
         IN (IF keeps_segment_word(word_text)
             THEN << Entry(TimedWord(word_text,
                                     start + idx * word_duration,
                                     start + (idx + 1) * word_duration), si, idx + 1) >>
             ELSE << >>)
                \o segment_word_entries(segment_words, start, word_duration, si, idx + 1)

segment_level_entries_KeptWordsCounted(segment, si) ==
    LET text == as_str(segment.text)
        t0 == as_str(segment.timestamps.from)
        t1 == as_str(segment.timestamps.to)
    IN IF Len(text) = 1 /\ Len(t0) = 1 /\ Len(t1) = 1
       THEN LET start == parse_ts(t0[1])
                end == parse_ts(t1[1])
            IN IF Len(start) = 1 /\ Len(end) = 1
               THEN LET segment_words == split_whitespace(text[1])
                        span == end[1] - start[1]
                        kept == {k \in 1..Len(segment_words) :
                                    keeps_segment_word(trim(segment_words[k]))}
                        word_duration == span \div Max(Cardinality(kept), 1)
                    IN segment_word_entries(segment_words, start[1],
                                            word_duration, si, 0)
               ELSE << >>
       ELSE << >>

\* Fallback: use segment-level timestamps
segment_level_entries(segment, si) ==
    LET text == as_str(segment.text)
        t0 == as_str(segment.timestamps.from)
        t1 == as_str(segment.timestamps.to)
    IN IF Len(text) = 1 /\ Len(t0) = 1 /\ Len(t1) = 1
       THEN LET start == parse_ts(t0[1])
                end == parse_ts(t1[1])
            IN IF Len(start) = 1 /\ Len(end) = 1
               THEN LET segment_words == split_whitespace(text[1])
                        span == end[1] - start[1]
                        word_duration == span \div Max(Len(segment_words), 1)
                    IN segment_word_entries(segment_words, start[1],
                                            word_duration, si, 0)
               ELSE << >>
       ELSE << >>

segment_entries(segment, si) ==
    IF segment.tokens.k = "array"
    THEN token_entries(segment.tokens.items, si, 1)
    ELSE segment_level_entries(segment, si)

RECURSIVE transcription_entries(_, _)
transcription_entries(transcription, si) ==
    IF si > Len(transcription) THEN << >>
    ELSE segment_entries(transcription[si], si)
            \o transcription_entries(transcription, si + 1)

Err == [status |-> "Err", words |-> << >>, srcs |-> << >>]

Ok(entries) ==
    [status |-> "Ok",
     words |-> [k \in 1..Len(entries) |-> entries[k].w],
     srcs |-> [k \in 1..Len(entries) |-> entries[k].src]]

parse_whisper_json_ErrWithoutWords(a) ==
    IF a.kind \in {"unreadable", "not_json"} THEN Err
    ELSE IF a.transcription.k = "array"
              /\ transcription_entries(a.transcription.items, 1) # << >>
         THEN Ok(transcription_entries(a.transcription.items, 1))
         ELSE Err

\* fs::read_to_string(json_file)?, serde_json::from_str(&content)? and the
\* walk over json["transcription"]
parse_whisper_json(a) ==
    IF a.kind \in {"unreadable", "not_json"} THEN Err
    ELSE IF a.transcription.k = "array"
         THEN Ok(transcription_entries(a.transcription.items, 1))
         ELSE Ok(<< >>)

(***************************************************************************)
(* subtitle.rs: generate_ass_with_word_highlight.  The grouper is the loop *)
(* over `words`; the renderer writes one Dialogue line per event.  An      *)
(* event keeps the two times given to format_ass_time, in milliseconds,    *)
(* and its text as the words with the style each one is written in.  The   *)
(* length of a text is its length in bytes; the texts drawn are ASCII.     *)
(***************************************************************************)
max_words_per_phrase == 3
max_chars_per_phrase == 20

len(text) == Len(text)

has_punctuation(word) ==
    \/ ends_with(word.text, ".")
    \/ ends_with(word.text, ",")
    \/ ends_with(word.text, "?")
    \/ ends_with(word.text, "!")

RECURSIVE group_TrailingDropped(_, _, _, _, _)
group_TrailingDropped(ws, k, done, current_phrase, current_chars) ==
    IF k > Len(ws) THEN done
    ELSE LET pushed == Append(current_phrase, ws[k])
             chars == current_chars + len(ws[k].text) + 1
         IN IF \/ Len(pushed) >= max_words_per_phrase
               \/ chars >= max_chars_per_phrase
               \/ has_punctuation(ws[k])
            THEN group_TrailingDropped(ws, k + 1, Append(done, pushed), << >>, 0)
            ELSE group_TrailingDropped(ws, k + 1, done, pushed, chars)

RECURSIVE group_OneWordMore(_, _, _, _, _)
group_OneWordMore(ws, k, done, current_phrase, current_chars) ==
    IF k > Len(ws)
    THEN IF current_phrase # << >> THEN Append(done, current_phrase) ELSE done
    ELSE LET pushed == Append(current_phrase, ws[k])
             chars == current_chars + len(ws[k].text) + 1
         IN IF \/ Len(pushed) > max_words_per_phrase
               \/ chars >= max_chars_per_phrase
               \/ has_punctuation(ws[k])
            THEN group_OneWordMore(ws, k + 1, Append(done, pushed), << >>, 0)
            ELSE group_OneWordMore(ws, k + 1, done, pushed, chars)

RECURSIVE group_CharLimitExclusive(_, _, _, _, _)
group_CharLimitExclusive(ws, k, done, current_phrase, current_chars) ==
    IF k > Len(ws)
    THEN IF current_phrase # << >> THEN Append(done, current_phrase) ELSE done
    ELSE LET pushed == Append(current_phrase, ws[k])
             chars == current_chars + len(ws[k].text) + 1
         IN IF \/ Len(pushed) >= max_words_per_phrase
               \/ chars > max_chars_per_phrase
               \/ has_punctuation(ws[k])
            THEN group_CharLimitExclusive(ws, k + 1, Append(done, pushed), << >>, 0)
            ELSE group_CharLimitExclusive(ws, k + 1, done, pushed, chars)

\* the loop `for word in words` and the push of the trailing phrase
RECURSIVE group(_, _, _, _, _)
group(ws, k, done, current_phrase, current_chars) ==
    IF k > Len(ws)
    THEN IF current_phrase # << >> THEN Append(done, current_phrase) ELSE done
    ELSE LET pushed == Append(current_phrase, ws[k])
             chars == current_chars + len(ws[k].text) + 1
         IN IF \/ Len(pushed) >= max_words_per_phrase
               \/ chars >= max_chars_per_phrase
               \/ has_punctuation(ws[k])
            THEN group(ws, k + 1, Append(done, pushed), << >>, 0)
            ELSE group(ws, k + 1, done, pushed, chars)

group_phrases(ws) == group(ws, 1, << >>, << >>, 0)

Dialogue(start, end, text) == [start |-> start, end |-> end, text |-> text]

\* the text of the event of word word_idx (counted from 1)
highlight_text(phrase_words, word_idx) ==
    [k \in 1..Len(phrase_words) |->
        [style |-> IF k = word_idx THEN "active"
                   ELSE IF k < word_idx THEN "previous" ELSE "future",
         text |-> phrase_words[k].text]]

final_text(phrase_words) ==
    [k \in 1..Len(phrase_words) |-> [style |-> "settled", text |-> phrase_words[k].text]]

word_event_EndsAtWordEnd(phrase_words, word_idx) ==
    LET word_start == phrase_words[word_idx].start
        word_end == phrase_words[word_idx].end
    IN Dialogue(word_start, word_end, highlight_text(phrase_words, word_idx))

\* format_ass_time(word_start), format_ass_time(word_end.max(word_start + 0.1))
word_event(phrase_words, word_idx) ==
    LET word_start == phrase_words[word_idx].start
        word_end == phrase_words[word_idx].end
    IN Dialogue(word_start, Max(word_end, word_start + 100),
                highlight_text(phrase_words, word_idx))

phrase_events(phrase_words) ==
    LET phrase_end == phrase_words[Len(phrase_words)].end + 500
        last_word_end == phrase_words[Len(phrase_words)].end
    IN [k \in 1..Len(phrase_words) |-> word_event(phrase_words, k)]
          \o (IF phrase_end > last_word_end
              THEN << Dialogue(last_word_end, phrase_end, final_text(phrase_words)) >>
              ELSE << >>)

RECURSIVE render(_, _)
render(ps, k) ==
    IF k > Len(ps) THEN << >>
    ELSE (IF ps[k] = << >> THEN << >> ELSE phrase_events(ps[k])) \o render(ps, k + 1)

NoEvents == [status |-> "none", lines |-> << >>]

\* words of every break kind and of every relation of end to start, placed
\* one second apart
WordKinds ==
    { [text |-> << "a" >>, d |-> 300],
      [text |-> << "b", "e" >>, d |-> 50],
      [text |-> << "h", "i" >>, d |-> 0],
      [text |-> << "o", "k", "." >>, d |-> 300],
      [text |-> << "s", "o", "," >>, d |-> 100],
      [text |-> << "e", "h", "?" >>, d |-> -200],
      [text |-> << "n", "o", "!" >>, d |-> 300],
      [text |-> << "w", "o", "n", "d", "e", "r", "f", "u", "l" >>, d |-> 300] }

WordLists ==
    { [k \in 1..Len(q) |->
          TimedWord(q[k].text, k * 1000, k * 1000 + q[k].d)] :
       q \in SeqsUpTo(WordKinds, MaxWords) }

(***************************************************************************)
(* subtitle.rs: format_ass_time.  The argument is the f64 nearest to       *)
(* ms / 1000, which is what from / 1000.0 and t0 / 100.0 give.  The casts  *)
(* `as u32` truncate.  Hours, minutes and seconds come out as in exact     *)
(* arithmetic; (seconds % 1.0) * 100.0 falls just below a whole number of  *)
(* centiseconds for some times that are one in decimal, and the cast then  *)
(* yields one centisecond less.  F64BelowCentisecond lists the times of    *)
(* Times for which IEEE 754 double arithmetic does so.                     *)
(***************************************************************************)
F64BelowCentisecond ==
    {290, 570, 580, 1130, 1140, 1150, 1160, 1170, 1180, 1190, 1200, 1210, 1220,
     65070, 3599990}

LongTimes == {59990, 59999, 65070, 3599990, 3599999, 3725070, 36000000}

Times == (0..MaxMillis) \cup LongTimes

\* "{:02}" of an unsigned integer
pad2(n) == IF n < 10 THEN << "0", Digit(n) >> ELSE display(n)

\* ((seconds % 1.0) * 100.0) as u32
centiseconds(ms) ==
    IF ms \in F64BelowCentisecond THEN (ms % 1000) \div 10 - 1
    ELSE (ms % 1000) \div 10

format_ass_time(ms) ==
    LET h == ms \div 3600000
        m == (ms % 3600000) \div 60000
        sec == (ms % 60000) \div 1000
        cs == centiseconds(ms)
    IN display(h) \o << ":" >> \o pad2(m) \o << ":" >> \o pad2(sec)
          \o << "." >> \o pad2(cs)

(***************************************************************************)
(* Inputs of parse_whisper_json: documents of at most MaxSegments segments *)
(* whose token arrays hold at most MaxTokens tokens.  Durations of the     *)
(* segment-level entries are multiples of 6 ms.                            *)
(***************************************************************************)
TokenSet ==
    { Token(JStr(<< " ", "h", "i" >>), Num(10), Num(30), Absent, Absent),
      Token(JStr(<< "h", "i" >>), Absent, Absent, Num(100), Num(300)),
      Token(JStr(<< "o", "k", "." >>), Num(40), Num(60), Num(700), Num(900)),
      Token(JStr(<< "[", "_", "]" >>), Num(0), Num(0), Absent, Absent),
      Token(JStr(<< " ", "<", "e", ">" >>), Num(10), Str(30), Num(0), Num(10)),
      Token(JStr(<< " ", "\n" >>), Num(10), Num(30), Absent, Absent),
      Token(JStr(<< "y", "o" >>), Num(50), Num(20), Absent, Absent) }

At(ms) == Timestamp(<< Part(0), Part(0), Part(ms) >>)
BadTimestamp == Timestamp(<< Part(0), BadPart, Part(0) >>)
ShortTimestamp == Timestamp(<< Part(0), Part(1000) >>)

SegmentLevelSet ==
    { Segment(NoTokens, JStr(<< "<", "u", ">", " ", "y", "e", "s" >>), At(0), At(600)),
      Segment(NoTokens, JStr(<< "[", "m", "]", " ", "g", "o" >>), At(600), At(1200)),
      Segment(NoTokens, JStr(<< "a", " ", "b", "\t", "c", " " >>), At(0), At(1200)),
      Segment(NoTokens, JStr(<< "h", "i", " ", "y", "o", "u" >>), At(2200), At(1000)),
      Segment(NoTokens, JStr(<< " ", " " >>), At(0), At(600)),
      Segment(NoTokens, JStr(<< "h", "i" >>), BadTimestamp, ShortTimestamp),
      Segment(NoTokens, NotStr, NoStr, At(600)) }

SegmentSet ==
    SegmentLevelSet
        \cup { Segment(Tokens(q), JStr(<< "h", "i" >>), At(0), At(600)) :
                  q \in SeqsUpTo(TokenSet, MaxTokens) }

Artifacts ==
    { [kind |-> "unreadable", transcription |-> NoTokens],
      [kind |-> "not_json", transcription |-> NoTokens],
      [kind |-> "json", transcription |-> NoTokens],
      [kind |-> "json", transcription |-> [k |-> "other", items |-> << >>]] }
        \cup { [kind |-> "json", transcription |-> Tokens(q)] :
                  q \in SeqsUpTo(SegmentSet, MaxSegments) }

(***************************************************************************)
(* full_process                                                            *)
(***************************************************************************)
\* no run of full_process has started
PipelineIdle ==
    /\ pc = "extract"
    /\ page = NoPage
    /\ segments = << >>
    /\ duration = 0
    /\ i = 0
    /\ success_count = 0
    /\ generated_files = << >>
    /\ window = [start |-> 0, end |-> 0]
    /\ state = "None"
    /\ stages = << >>
    /\ files = NoFiles(1)
    /\ frame = << 0, 0 >>
    /\ invoked = {}
    /\ visited = << >>
    /\ crop_ok_count = 0
    /\ final_count = 0
    /\ failure = "none"
    /\ crop_cmd = NoCommand

\* no subtitle function has been called
SubtitleIdle ==
    /\ artifact = NoArtifact
    /\ parsed = NotParsed
    /\ words = << >>
    /\ phrases = << >>
    /\ events = NoEvents
    /\ seconds = 0
    /\ ass_time = << >>

NoPayload == [crop_mode |-> << >>, name |-> << >>, subtitle |-> << >>]
NoReply == [status |-> "none"]

\* the files of a candidate whose crop succeeded
CroppedFiles == [NoFiles(1) EXCEPT !.cropped = "cropped"]

\* generate_subtitle_whisper_cpp has not been called: `runs` is the history
\* of the transcriptions started, `word_exit` and `json_exists` what the
\* word-level one gave, `result` what the function returned, `files` and
\* `success` what the caller made of it
NoWhisper ==
    [pc |-> "idle", runs |-> << >>, word_exit |-> "none", json_exists |-> FALSE,
     plain_ok |-> FALSE, result |-> "none", files |-> CroppedFiles,
     success |-> FALSE, captioned |-> FALSE]

\* no request is being served
NoJobs == << >>

ServiceIdle ==
    /\ payload = NoPayload
    /\ reply = NoReply
    /\ whisper = NoWhisper
    /\ jobs = NoJobs
    /\ touched = {}

Init ==
    /\ options \in [crop_mode : CropModes, subtitle_enabled : BOOLEAN]
    /\ PipelineIdle
    /\ ServiceIdle
    /\ SubtitleIdle

clip_vars == << i, success_count, generated_files, window, state, stages,
                files, frame, invoked, visited, crop_ok_count, final_count,
                crop_cmd >>

ExtractVideoId ==
    /\ pc = "extract"
    /\ \E url \in Urls :
          IF extract_video_id(url)
          THEN pc' = "fetch" /\ failure' = failure
          ELSE pc' = "error" /\ failure' = "invalid_url"
    /\ UNCHANGED subtitle_vars
    /\ UNCHANGED service_vars
    /\ UNCHANGED << options, page, segments, duration >>
    /\ UNCHANGED clip_vars

\* fetch_heatmap(&video_id).await? and the segments.is_empty() check
FetchHeatmap(family) ==
    /\ pc = "fetch"
    /\ \E p \in PagesOf(family) :
          /\ page' = p
          /\ IF p.kind = "ok"
             THEN /\ segments' = fetch_heatmap(p.markers)
                  /\ IF segments' = << >>
                     THEN pc' = "error" /\ failure' = "no_segments"
                     ELSE pc' = "duration" /\ failure' = failure
             ELSE /\ segments' = << >>
                  /\ pc' = "error"
                  /\ failure' = p.kind
    /\ UNCHANGED subtitle_vars
    /\ UNCHANGED service_vars
    /\ UNCHANGED << options, duration >>
    /\ UNCHANGED clip_vars

FetchPipelinePage == FetchHeatmap(PipelineMarkers)
FetchHeatmapPage == FetchHeatmap(HeatmapMarkers)

GetDuration_FailureIgnored ==
    /\ pc = "duration"
    /\ \E r \in {"spawn_error", "exit_nonzero", "mkdir_error", "ok"}, d \in Durations :
          IF r = "ok"
          THEN duration' = d /\ pc' = "loop" /\ failure' = failure
          ELSE duration' = d /\ pc' = "loop" /\ failure' = r
    /\ UNCHANGED subtitle_vars
    /\ UNCHANGED service_vars
    /\ UNCHANGED << options, page, segments >>
    /\ UNCHANGED clip_vars

\* get_duration(&video_id)? and fs::create_dir_all(&options.output_dir)?
GetDuration ==
    /\ pc = "duration"
    /\ \E r \in {"spawn_error", "exit_nonzero", "mkdir_error", "ok"}, d \in Durations :
          IF r = "ok"
          THEN duration' = d /\ pc' = "loop" /\ failure' = failure
          ELSE duration' = duration /\ pc' = "error" /\ failure' = r
    /\ UNCHANGED subtitle_vars
    /\ UNCHANGED service_vars
    /\ UNCHANGED << options, page, segments >>
    /\ UNCHANGED clip_vars

(***************************************************************************)
(* The loop of full_process and the stages of process_clip.  A step of     *)
(* the model runs the code from the return of one external tool to the     *)
(* start of the next one, the return into the loop included.               *)
(***************************************************************************)
Stage(name, ok) == [stage |-> name, ok |-> ok]

\* if success_count >= MAX_CLIPS
QuotaReached_OffByOne == success_count > MAX_CLIPS

QuotaReached == success_count >= MAX_CLIPS

ReturnFromClip_CountsEveryClip(success) ==
    /\ pc' = "loop"
    /\ generated_files' = Append(generated_files, success_count + 1)
    /\ success_count' = success_count + 1

ReturnFromClip_RankAsIndex(success) ==
    /\ pc' = "loop"
    /\ IF success
       THEN /\ generated_files' = Append(generated_files, i)
            /\ success_count' = success_count + 1
       ELSE UNCHANGED << generated_files, success_count >>

\* process_clip returned: `if let Ok(true) = ... { push; success_count += 1 }`
ReturnFromClip(success) ==
    /\ pc' = "loop"
    /\ IF success
       THEN /\ generated_files' = Append(generated_files, success_count + 1)
            /\ success_count' = success_count + 1
       ELSE UNCHANGED << generated_files, success_count >>

\* the for loop ran out of segments
LoopExhausted ==
    /\ pc = "loop"
    /\ i = Len(segments)
    /\ pc' = "done"
    /\ UNCHANGED subtitle_vars
    /\ UNCHANGED service_vars
    /\ UNCHANGED << options, page, segments, duration, failure >>
    /\ UNCHANGED clip_vars

\* if success_count >= MAX_CLIPS { break; }
LoopBreak ==
    /\ pc = "loop"
    /\ i < Len(segments)
    /\ QuotaReached
    /\ pc' = "done"
    /\ UNCHANGED subtitle_vars
    /\ UNCHANGED service_vars
    /\ UNCHANGED << options, page, segments, duration, failure >>
    /\ UNCHANGED clip_vars

\* the next segment is handed to process_clip, which computes its window
StartClip ==
    /\ pc = "loop"
    /\ i < Len(segments)
    /\ ~QuotaReached
    /\ i' = i + 1
    /\ visited' = Append(visited, i + 1)
    /\ window' = WindowOf(segments[i + 1], duration)
    /\ stages' = << >>
    /\ files' = IF files.index = success_count + 1 THEN files
                ELSE NoFiles(success_count + 1)
    /\ IF WindowRejected(window')
       THEN /\ state' = "Skipped"
            /\ ReturnFromClip(FALSE)
       ELSE /\ state' = "Windowed"
            /\ pc' = "download"
            /\ UNCHANGED << generated_files, success_count >>
    /\ UNCHANGED subtitle_vars
    /\ UNCHANGED service_vars
    /\ UNCHANGED << options, page, segments, duration, frame, invoked,
                    crop_ok_count, final_count, failure, crop_cmd >>

Download_StatusNotChecked ==
    /\ pc = "download"
    /\ invoked' = invoked \cup {"download"}
    /\ \E r \in {"spawn_error", "exit_nonzero", "file_missing", "ok"} :
          /\ stages' = Append(stages, Stage("download", r = "ok"))
          /\ IF r \in {"ok", "exit_nonzero"}
             THEN /\ files' = [files EXCEPT !.temp = "raw"]
                  /\ state' = "Downloaded"
                  /\ pc' = "crop"
                  /\ UNCHANGED << generated_files, success_count >>
             ELSE /\ files' = files
                  /\ state' = "Skipped"
                  /\ ReturnFromClip(FALSE)
    /\ UNCHANGED subtitle_vars
    /\ UNCHANGED service_vars
    /\ UNCHANGED << options, page, segments, duration, i, window, frame,
                    visited, crop_ok_count, final_count, failure, crop_cmd >>

\* 1. Download segment
Download ==
    /\ pc = "download"
    /\ invoked' = invoked \cup {"download"}
    /\ \E r \in {"spawn_error", "exit_nonzero", "file_missing", "ok"} :
          /\ stages' = Append(stages, Stage("download", r = "ok"))
          /\ IF r = "ok"
             THEN /\ files' = [files EXCEPT !.temp = "raw"]
                  /\ state' = "Downloaded"
                  /\ pc' = "crop"
                  /\ UNCHANGED << generated_files, success_count >>
             ELSE /\ files' = files
                  /\ state' = "Skipped"
                  /\ ReturnFromClip(FALSE)
    /\ UNCHANGED subtitle_vars
    /\ UNCHANGED service_vars
    /\ UNCHANGED << options, page, segments, duration, i, window, frame,
                    visited, crop_ok_count, final_count, failure, crop_cmd >>

\* 2. Convert/Crop, and for a run without subtitles process_subtitle's rename
Crop ==
    /\ pc = "crop"
    /\ invoked' = invoked \cup {"crop"}
    /\ crop_cmd' = crop_command(options.crop_mode)
    /\ \E r \in {"spawn_error", "exit_nonzero", "ok"}, r1 \in BOOLEAN, r2 \in BOOLEAN :
          /\ stages' = Append(stages, Stage("crop", r = "ok"))
          /\ CASE r = "spawn_error" ->
                    /\ files' = files
                    /\ state' = "Skipped"
                    /\ ReturnFromClip(FALSE)
                    /\ UNCHANGED << frame, crop_ok_count, final_count >>
               [] r = "exit_nonzero" ->
                    /\ files' = [files EXCEPT !.temp = "none", !.cropped = "none"]
                    /\ state' = "Skipped"
                    /\ ReturnFromClip(FALSE)
                    /\ UNCHANGED << frame, crop_ok_count, final_count >>
               [] r = "ok" ->
                    LET cropped == [files EXCEPT !.temp = "none", !.cropped = "cropped"]
                        fin == FinishByRename(cropped, r1, r2)
                    IN /\ frame' = FrameOf(get_ffmpeg_filter(options.crop_mode))
                       /\ crop_ok_count' = crop_ok_count + 1
                       /\ IF options.subtitle_enabled
                          THEN /\ files' = cropped
                               /\ state' = "Cropped"
                               /\ pc' = "transcribe"
                               /\ UNCHANGED << generated_files, success_count,
                                               final_count >>
                          ELSE /\ files' = fin.files
                               /\ state' = IF fin.success THEN "Finalized" ELSE "Skipped"
                               /\ final_count' = IF fin.success THEN final_count + 1
                                                 ELSE final_count
                               /\ ReturnFromClip(fin.success)
    /\ UNCHANGED subtitle_vars
    /\ UNCHANGED service_vars
    /\ UNCHANGED << options, page, segments, duration, i, window, visited,
                    failure >>

\* 3. process_subtitle: generate_subtitle
Transcribe ==
    /\ pc = "transcribe"
    /\ invoked' = invoked \cup {"transcribe"}
    /\ \E ok \in BOOLEAN, r1 \in BOOLEAN, r2 \in BOOLEAN :
          /\ stages' = Append(stages, Stage("transcribe", ok))
          /\ IF ok
             THEN /\ files' = [files EXCEPT !.sub = "subs"]
                  /\ pc' = "burn"
                  /\ UNCHANGED << state, generated_files, success_count, final_count >>
             ELSE LET fin == FinishByRename(files, r1, r2)
                  IN /\ files' = fin.files
                     /\ state' = IF fin.success THEN "FinalizedWithoutCaption"
                                 ELSE "Skipped"
                     /\ final_count' = IF fin.success THEN final_count + 1
                                       ELSE final_count
                     /\ ReturnFromClip(fin.success)
    /\ UNCHANGED subtitle_vars
    /\ UNCHANGED service_vars
    /\ UNCHANGED << options, page, segments, duration, i, window, frame,
                    visited, crop_ok_count, failure, crop_cmd >>

\* 3. process_subtitle: burn_subtitle
Burn ==
    /\ pc = "burn"
    /\ invoked' = invoked \cup {"burn"}
    /\ \E ok \in BOOLEAN, r1 \in BOOLEAN, r2 \in BOOLEAN :
          /\ stages' = Append(stages, Stage("burn", ok))
          /\ IF ok
             THEN /\ files' = [files EXCEPT !.clip = "captioned",
                                            !.cropped = "none", !.sub = "none"]
                  /\ state' = "Finalized"
                  /\ final_count' = final_count + 1
                  /\ ReturnFromClip(TRUE)
             ELSE LET fin == FinishByRename([files EXCEPT !.sub = "none"], r1, r2)
                  IN /\ files' = fin.files
                     /\ state' = IF fin.success THEN "FinalizedWithoutCaption"
                                 ELSE "Skipped"
                     /\ final_count' = IF fin.success THEN final_count + 1
                                       ELSE final_count
                     /\ ReturnFromClip(fin.success)
    /\ UNCHANGED subtitle_vars
    /\ UNCHANGED service_vars
    /\ UNCHANGED << options, page, segments, duration, i, window, frame,
                    visited, crop_ok_count, failure, crop_cmd >>

Next ==
    \/ ExtractVideoId
    \/ FetchPipelinePage
    \/ GetDuration
    \/ LoopExhausted
    \/ LoopBreak
    \/ StartClip
    \/ Download
    \/ Crop
    \/ Transcribe
    \/ Burn

Spec == Init /\ [][Next]_vars

\* fetch_heatmap alone, on marker arrays of every kind
NextHeatmap ==
    \/ ExtractVideoId
    \/ FetchHeatmapPage

SpecHeatmap == Init /\ [][NextHeatmap]_vars

(***************************************************************************)
(* server.rs: the response of process_handler to a run that returned       *)
(* Ok(files).  CropMode derives Display with kebab-case names.  The        *)
(* recognition model and the language are the defaults of the handler.     *)
(***************************************************************************)
to_string(mode) ==
    CASE mode = "Default" -> "default"
      [] mode = "SplitLeft" -> "split-left"
      [] mode = "SplitRight" -> "split-right"

clip_name(n) == << "clip_", n, ".mp4" >>

\* Ok(generated_files) of full_process
ResultOf(indices) == [k \in 1..Len(indices) |-> clip_name(indices[k])]

ProcessOptionsResponse(opts) ==
    [crop_mode |-> to_string(opts.crop_mode),
     subtitle_enabled |-> opts.subtitle_enabled,
     whisper_model |-> IF opts.subtitle_enabled THEN << "small" >> ELSE << >>,
     language |-> IF opts.subtitle_enabled THEN << "id" >> ELSE << >>,
     gpu |-> FALSE]

ProcessResponse(result, opts) ==
    [message |-> "Processing complete",
     files |-> result,
     options |-> ProcessOptionsResponse(opts)]

(***************************************************************************)
(* crop.rs: CropMode::from_input, and the resolution of the options by     *)
(* process_handler (server.rs) and by main without --interactive (main.rs).*)
(* An Option is a sequence of length 0 (None) or 1 (Some).  A selector is  *)
(* built from a lower-case name by a change of case and by padding; `name` *)
(* is a history field holding the name it was built from.                  *)
(***************************************************************************)
UpperCase == << "A", "B", "C", "D", "E", "F", "G", "H", "I", "J", "K", "L", "M",
                "N", "O", "P", "Q", "R", "S", "T", "U", "V", "W", "X", "Y", "Z" >>
LowerCase == << "a", "b", "c", "d", "e", "f", "g", "h", "i", "j", "k", "l", "m",
                "n", "o", "p", "q", "r", "s", "t", "u", "v", "w", "x", "y", "z" >>

CharTo(from, to, c) ==
    IF \E k \in 1..Len(from) : from[k] = c
    THEN to[CHOOSE k \in 1..Len(from) : from[k] = c]
    ELSE c

to_lowercase(text) == [k \in 1..Len(text) |-> CharTo(UpperCase, LowerCase, text[k])]
to_uppercase(text) == [k \in 1..Len(text) |-> CharTo(LowerCase, UpperCase, text[k])]

from_input_CaseKept(input) ==
    LET s == trim(input)
    IN CASE s \in { << "1" >>, << "d", "e", "f", "a", "u", "l", "t" >> } -> << "Default" >>
         [] s \in { << "2" >>,
                    << "s", "p", "l", "i", "t", "-", "l", "e", "f", "t" >>,
                    << "s", "p", "l", "i", "t", "_", "l", "e", "f", "t" >>,
                    << "s", "p", "l", "i", "t", "l", "e", "f", "t" >> } -> << "SplitLeft" >>
         [] s \in { << "3" >>,
                    << "s", "p", "l", "i", "t", "-", "r", "i", "g", "h", "t" >>,
                    << "s", "p", "l", "i", "t", "_", "r", "i", "g", "h", "t" >>,
                    << "s", "p", "l", "i", "t", "r", "i", "g", "h", "t" >> } -> << "SplitRight" >>
         [] OTHER -> << >>

\* Option<CropMode>
from_input(input) ==
    LET s == to_lowercase(trim(input))
    IN CASE s \in { << "1" >>, << "d", "e", "f", "a", "u", "l", "t" >> } -> << "Default" >>
         [] s \in { << "2" >>,
                    << "s", "p", "l", "i", "t", "-", "l", "e", "f", "t" >>,
                    << "s", "p", "l", "i", "t", "_", "l", "e", "f", "t" >>,
                    << "s", "p", "l", "i", "t", "l", "e", "f", "t" >> } -> << "SplitLeft" >>
         [] s \in { << "3" >>,
                    << "s", "p", "l", "i", "t", "-", "r", "i", "g", "h", "t" >>,
                    << "s", "p", "l", "i", "t", "_", "r", "i", "g", "h", "t" >>,
                    << "s", "p", "l", "i", "t", "r", "i", "g", "h", "t" >> } -> << "SplitRight" >>
         [] OTHER -> << >>

\* payload.crop_mode.as_deref().and_then(CropMode::from_input)
and_then_from_input(opt) == IF opt = << >> THEN << >> ELSE from_input(opt[1])

\* the text of CropMode::to_string()
to_string_text(mode) ==
    CASE mode = "Default" -> << "d", "e", "f", "a", "u", "l", "t" >>
      [] mode = "SplitLeft" -> << "s", "p", "l", "i", "t", "-", "l", "e", "f", "t" >>
      [] mode = "SplitRight" -> << "s", "p", "l", "i", "t", "-", "r", "i", "g", "h", "t" >>

SelectorNames ==
    { << "1" >>, << "2" >>, << "3" >>, << "4" >>, << "0" >>, << >>,
      << "d", "e", "f", "a", "u", "l", "t" >>,
      << "d", "e", "f", "a", "u", "l", "t", "s" >>,
      << "s", "p", "l", "i", "t", "-", "l", "e", "f", "t" >>,
      << "s", "p", "l", "i", "t", "_", "l", "e", "f", "t" >>,
      << "s", "p", "l", "i", "t", "l", "e", "f", "t" >>,
      << "s", "p", "l", "i", "t", " ", "l", "e", "f", "t" >>,
      << "s", "p", "l", "i", "t", "-", "r", "i", "g", "h", "t" >>,
      << "s", "p", "l", "i", "t", "_", "r", "i", "g", "h", "t" >>,
      << "s", "p", "l", "i", "t", "r", "i", "g", "h", "t" >>,
      << "s", "p", "l", "i", "t" >>,
      << "l", "e", "f", "t" >>,
      << "c", "e", "n", "t", "e", "r" >> }

capitalized(text) ==
    IF text = << >> THEN text ELSE to_uppercase(<< Head(text) >>) \o Tail(text)

Casings(text) == { text, to_uppercase(text), capitalized(text) }

Paddings == { << << >>, << >> >>, << << " " >>, << >> >>, << << >>, << "\n" >> >>,
              << << " ", "\t" >>, << " " >> >> }

SelectorsOf(name) ==
    { [text |-> pad[1] \o cased \o pad[2], name |-> name] :
        pad \in Paddings, cased \in Casings(name) }

Selectors == UNION { SelectorsOf(name) : name \in SelectorNames }

\* a request: crop_mode and subtitle may be absent
Payloads ==
    { [crop_mode |-> << sel.text >>, name |-> << sel.name >>, subtitle |-> sub] :
        sel \in Selectors, sub \in {<< >>, << TRUE >>, << FALSE >>} }
    \cup { [crop_mode |-> << >>, name |-> << >>, subtitle |-> sub] :
              sub \in {<< >>, << TRUE >>, << FALSE >>} }

\* what full_process returns to its caller: the list of clips, or an error
RunOutcomes ==
    { [ok |-> TRUE, files |-> ResultOf(<< >>)],
      [ok |-> TRUE, files |-> ResultOf(<< 1, 2 >>)],
      [ok |-> FALSE, files |-> << >>] }

\* the options before a caller has built them
SubtitleOptions == [crop_mode |-> "Default", subtitle_enabled |-> TRUE]

InitService ==
    /\ options = SubtitleOptions
    /\ PipelineIdle
    /\ SubtitleIdle
    /\ payload \in Payloads
    /\ reply = NoReply
    /\ whisper = NoWhisper
    /\ jobs = NoJobs
    /\ touched = {}

\* server.rs: process_handler, from the payload to the response
ProcessHandler ==
    /\ reply.status = "none"
    /\ \E python \in BOOLEAN, run \in RunOutcomes :
          LET crop_mode == unwrap_or(and_then_from_input(payload.crop_mode), "Default")
              subtitle_enabled == unwrap_or(payload.subtitle, FALSE) /\ python
              opts == [crop_mode |-> crop_mode, subtitle_enabled |-> subtitle_enabled]
          IN /\ options' = opts
             /\ reply' = IF run.ok
                         THEN [status |-> "ok", by |-> "service",
                               body |-> ProcessResponse(run.files, opts),
                               crop_mode |-> to_string_text(crop_mode)]
                         ELSE [status |-> "error", by |-> "service"]
    /\ UNCHANGED << pc, page, segments, duration, failure, payload, whisper,
                    jobs, touched >>
    /\ UNCHANGED clip_vars
    /\ UNCHANGED subtitle_vars

\* main.rs: main without --interactive; args.crop is always present and
\* args.subtitle is a flag
Main ==
    /\ reply.status = "none"
    /\ payload.crop_mode # << >>
    /\ payload.subtitle # << >>
    /\ \E run \in RunOutcomes :
          LET crop_mode == unwrap_or(from_input(payload.crop_mode[1]), "Default")
          IN /\ options' = [crop_mode |-> crop_mode, subtitle_enabled |-> payload.subtitle[1]]
             /\ reply' = IF run.ok
                         THEN [status |-> "ok", by |-> "cli", saved |-> Len(run.files)]
                         ELSE [status |-> "error", by |-> "cli"]
    /\ UNCHANGED << pc, page, segments, duration, failure, payload, whisper,
                    jobs, touched >>
    /\ UNCHANGED clip_vars
    /\ UNCHANGED subtitle_vars

NextService ==
    \/ ProcessHandler
    \/ Main

SpecService == InitService /\ [][NextService]_vars

(***************************************************************************)
(* The subtitle functions, each one applied to the inputs drawn by its     *)
(* initial condition.                                                      *)
(***************************************************************************)
pipeline_vars == << options, pc, page, segments, duration, failure >>

InitTranscript ==
    /\ options = SubtitleOptions
    /\ PipelineIdle
    /\ ServiceIdle
    /\ artifact \in Artifacts
    /\ parsed = NotParsed
    /\ words = << >>
    /\ phrases = << >>
    /\ events = NoEvents
    /\ seconds = 0
    /\ ass_time = << >>

\* parse_whisper_json(&json_file)
ParseWhisperJson ==
    /\ parsed = NotParsed
    /\ parsed' = parse_whisper_json(artifact)
    /\ UNCHANGED << artifact, words, phrases, events, seconds, ass_time >>
    /\ UNCHANGED pipeline_vars
    /\ UNCHANGED service_vars
    /\ UNCHANGED clip_vars

NextTranscript == ParseWhisperJson

SpecTranscript == InitTranscript /\ [][NextTranscript]_vars

InitPhrases ==
    /\ options = SubtitleOptions
    /\ PipelineIdle
    /\ ServiceIdle
    /\ artifact = NoArtifact
    /\ parsed = NotParsed
    /\ words \in WordLists
    /\ phrases = << >>
    /\ events = NoEvents
    /\ seconds = 0
    /\ ass_time = << >>

\* generate_ass_with_word_highlight(&words, output_file): File::create(..)?
\* and every write_all(..)? end the function with Err; the events of a run
\* whose writes succeed are kept
GenerateAssWithWordHighlight ==
    /\ events = NoEvents
    /\ \E created \in BOOLEAN :
          IF created
          THEN /\ phrases' = group_phrases(words)
               /\ events' = [status |-> "Ok", lines |-> render(phrases', 1)]
          ELSE /\ phrases' = << >>
               /\ events' = [status |-> "Err", lines |-> << >>]
    /\ UNCHANGED << artifact, parsed, words, seconds, ass_time >>
    /\ UNCHANGED pipeline_vars
    /\ UNCHANGED service_vars
    /\ UNCHANGED clip_vars

NextPhrases == GenerateAssWithWordHighlight

SpecPhrases == InitPhrases /\ [][NextPhrases]_vars

InitTime ==
    /\ options = SubtitleOptions
    /\ PipelineIdle
    /\ ServiceIdle
    /\ artifact = NoArtifact
    /\ parsed = NotParsed
    /\ words = << >>
    /\ phrases = << >>
    /\ events = NoEvents
    /\ seconds \in Times
    /\ ass_time = << >>

\* format_ass_time(seconds)
FormatAssTime ==
    /\ ass_time = << >>
    /\ ass_time' = format_ass_time(seconds)
    /\ UNCHANGED << artifact, parsed, words, phrases, events, seconds >>
    /\ UNCHANGED pipeline_vars
    /\ UNCHANGED service_vars
    /\ UNCHANGED clip_vars

NextTime == FormatAssTime

SpecTime == InitTime /\ [][NextTime]_vars

(***************************************************************************)
(* subtitle.rs: generate_subtitle_whisper_cpp, one action per step, and    *)
(* what process_subtitle and process_clip make of its result.  `artifact`  *)
(* is the JSON document the word-level transcription writes when it writes *)
(* one.  The subtitle file of this backend is temp_<n>.ass, which is the   *)
(* file generate_ass_with_word_highlight writes, so that no rename follows.*)
(***************************************************************************)
WhisperArtifacts ==
    { [kind |-> "unreadable", transcription |-> NoTokens],
      [kind |-> "not_json", transcription |-> NoTokens],
      [kind |-> "json", transcription |-> NoTokens],
      [kind |-> "json", transcription |-> Tokens(<< >>)] }
        \cup { [kind |-> "json", transcription |-> Tokens(<< s >>)] : s \in SegmentSet }

InitWhisper ==
    /\ options = SubtitleOptions
    /\ PipelineIdle
    /\ ServiceIdle
    /\ artifact \in WhisperArtifacts
    /\ parsed = NotParsed
    /\ words = << >>
    /\ phrases = << >>
    /\ events = NoEvents
    /\ seconds = 0
    /\ ass_time = << >>

Returned(res) == [whisper EXCEPT !.pc = "returned", !.result = res]

\* get_whisper_cpp_binary()?, download_whisper_model()? and extract_audio()?
WhisperPrepare ==
    /\ whisper.pc = "idle"
    /\ \E r \in {"no_binary", "download_failed", "audio_failed", "ready"} :
          whisper' = IF r = "ready" THEN [whisper EXCEPT !.pc = "word"]
                     ELSE Returned("Err")
    /\ UNCHANGED << artifact, parsed, words, phrases, events, seconds, ass_time >>
    /\ UNCHANGED << payload, reply, jobs, touched >>
    /\ UNCHANGED pipeline_vars
    /\ UNCHANGED clip_vars

\* the word-level transcription: .output()? and the test of its status and
\* of the JSON file
WhisperWordLevel ==
    /\ whisper.pc = "word"
    /\ \E exit \in {"spawn_error", "exit_nonzero", "ok"}, json \in BOOLEAN :
          LET ran == [whisper EXCEPT !.runs = Append(@, "word"), !.word_exit = exit,
                                     !.json_exists = json]
          IN whisper' = IF exit = "spawn_error"
                        THEN [ran EXCEPT !.pc = "returned", !.result = "Err"]
                        ELSE IF exit = "ok" /\ json
                             THEN [ran EXCEPT !.pc = "parse"]
                             ELSE [ran EXCEPT !.pc = "plain"]
    /\ UNCHANGED << artifact, parsed, words, phrases, events, seconds, ass_time >>
    /\ UNCHANGED << payload, reply, jobs, touched >>
    /\ UNCHANGED pipeline_vars
    /\ UNCHANGED clip_vars

\* match parse_whisper_json(&json_file)
WhisperParse ==
    /\ whisper.pc = "parse"
    /\ parsed' = parse_whisper_json(artifact)
    /\ IF parsed'.status = "Ok" /\ ~is_empty(parsed'.words)
       THEN /\ words' = parsed'.words
            /\ whisper' = [whisper EXCEPT !.pc = "write"]
       ELSE /\ words' = words
            /\ whisper' = [whisper EXCEPT !.pc = "plain"]
    /\ UNCHANGED << artifact, phrases, events, seconds, ass_time >>
    /\ UNCHANGED << payload, reply, jobs, touched >>
    /\ UNCHANGED pipeline_vars
    /\ UNCHANGED clip_vars

\* generate_ass_with_word_highlight(&words, &ass_file)? and return Ok(())
WhisperWrite ==
    /\ whisper.pc = "write"
    /\ \E created \in BOOLEAN :
          IF created
          THEN /\ phrases' = group_phrases(words)
               /\ events' = [status |-> "Ok", lines |-> render(phrases', 1)]
               /\ whisper' = Returned("Ok")
          ELSE /\ phrases' = << >>
               /\ events' = [status |-> "Err", lines |-> << >>]
               /\ whisper' = Returned("Err")
    /\ UNCHANGED << artifact, parsed, words, seconds, ass_time >>
    /\ UNCHANGED << payload, reply, jobs, touched >>
    /\ UNCHANGED pipeline_vars
    /\ UNCHANGED clip_vars

\* Fallback: the plain transcription, .output()?, and generate_simple_ass
WhisperPlain ==
    /\ whisper.pc = "plain"
    /\ \E exit \in {"spawn_error", "exit_nonzero", "ok"}, srt \in BOOLEAN,
          converted \in BOOLEAN :
          LET ok == exit = "ok" /\ srt /\ converted
          IN whisper' = [whisper EXCEPT !.runs = Append(@, "plain"),
                                        !.plain_ok = ok,
                                        !.pc = "returned",
                                        !.result = IF ok THEN "Ok" ELSE "Err"]
    /\ UNCHANGED << artifact, parsed, words, phrases, events, seconds, ass_time >>
    /\ UNCHANGED << payload, reply, jobs, touched >>
    /\ UNCHANGED pipeline_vars
    /\ UNCHANGED clip_vars

\* process_subtitle on the result of generate_subtitle, and the Err arm of
\* process_clip
ProcessSubtitle ==
    /\ whisper.pc = "returned"
    /\ \E burned \in BOOLEAN, r1 \in BOOLEAN, r2 \in BOOLEAN :
          LET fin == FinishByRename(whisper.files, r1, r2)
          IN whisper' = IF whisper.result = "Ok" /\ burned
                        THEN [whisper EXCEPT !.pc = "finished",
                                             !.files = [@ EXCEPT !.clip = "captioned",
                                                                 !.cropped = "none"],
                                             !.success = TRUE,
                                             !.captioned = TRUE]
                        ELSE [whisper EXCEPT !.pc = "finished",
                                             !.files = fin.files,
                                             !.success = fin.success]
    /\ UNCHANGED << artifact, parsed, words, phrases, events, seconds, ass_time >>
    /\ UNCHANGED << payload, reply, jobs, touched >>
    /\ UNCHANGED pipeline_vars
    /\ UNCHANGED clip_vars

NextWhisper ==
    \/ WhisperPrepare
    \/ WhisperWordLevel
    \/ WhisperParse
    \/ WhisperWrite
    \/ WhisperPlain
    \/ ProcessSubtitle

SpecWhisper == InitWhisper /\ [][NextWhisper]_vars

(***************************************************************************)
(* Two runs of full_process at the same time, as the service starts one    *)
(* per request on the threads of its runtime (main.rs: #[tokio::main],     *)
(* server.rs: axum::serve), each with the output directory of its request. *)
(* A path is a directory and a file name; a relative path lies in the      *)
(* working directory of the process, ".".  A run is followed through the   *)
(* steps of process_clip that use files; `touched` records, for each run,  *)
(* the paths it has read, written, renamed or deleted.                     *)
(***************************************************************************)
MaxJobCandidates == 2

Jobs == {1, 2}

OutputDirs == {"clips", "shorts"}

Path(dir, name) == [dir |-> dir, name |-> name]

\* format!("temp_{}.mp4", index) with index = success_count + 1
temp_file(job) == Path(".", << "temp_", job.success_count + 1, ".mp4" >>)

cropped_file(job) == Path(".", << "temp_cropped_", job.success_count + 1, ".mp4" >>)

output_file(job) == Path(job.output_dir, clip_name(job.success_count + 1))

\* process_subtitle: format!("temp_{}.{}", index, sub_ext)
sub_file(job) == Path(".", << "temp_", job.success_count + 1, ".ass" >>)

\* generate_subtitle_whisper_cpp: the audio extracted from the cropped file
audio_file(job) == Path(".", << "temp_cropped_", job.success_count + 1, ".wav" >>)

Uses(j, paths) == touched' = touched \cup {<< j, p >> : p \in paths}

\* process_clip returned to the loop of full_process
NextCandidate(job, success) ==
    LET count == IF success THEN job.success_count + 1 ELSE job.success_count
        left == job.left - 1
    IN [job EXCEPT !.success_count = count,
                   !.left = left,
                   !.pc = IF left = 0 \/ count >= MAX_CLIPS THEN "done"
                          ELSE "download"]

InitConcurrent ==
    /\ options = SubtitleOptions
    /\ PipelineIdle
    /\ SubtitleIdle
    /\ payload = NoPayload
    /\ reply = NoReply
    /\ whisper = NoWhisper
    /\ jobs \in [Jobs -> [pc : {"download"}, output_dir : OutputDirs,
                          subtitle : BOOLEAN, left : {MaxJobCandidates},
                          success_count : {0}]]
    /\ touched = {}

\* 1. Download segment
JobDownload(j) ==
    /\ jobs[j].pc = "download"
    /\ Uses(j, {temp_file(jobs[j])})
    /\ \E ok \in BOOLEAN :
          jobs' = [jobs EXCEPT ![j] = IF ok THEN [@ EXCEPT !.pc = "crop"]
                                      ELSE NextCandidate(@, FALSE)]

\* 2. Convert/Crop and the cleanup of the downloaded file
JobCrop(j) ==
    /\ jobs[j].pc = "crop"
    /\ Uses(j, {temp_file(jobs[j]), cropped_file(jobs[j])})
    /\ \E ok \in BOOLEAN :
          jobs' = [jobs EXCEPT ![j] = IF ok THEN [@ EXCEPT !.pc = "subtitle"]
                                      ELSE NextCandidate(@, FALSE)]

\* 3. process_subtitle: the rename of the cropped file, or generate_subtitle
\* and burn_subtitle with the rename when one of them fails
JobSubtitle(j) ==
    /\ jobs[j].pc = "subtitle"
    /\ IF jobs[j].subtitle
       THEN Uses(j, {cropped_file(jobs[j]), audio_file(jobs[j]), sub_file(jobs[j]),
                     output_file(jobs[j])})
       ELSE Uses(j, {cropped_file(jobs[j]), output_file(jobs[j])})
    /\ jobs' = [jobs EXCEPT ![j] = NextCandidate(@, TRUE)]

JobStep(j) ==
    /\ \/ JobDownload(j)
       \/ JobCrop(j)
       \/ JobSubtitle(j)
    /\ UNCHANGED << payload, reply, whisper >>
    /\ UNCHANGED subtitle_vars
    /\ UNCHANGED pipeline_vars
    /\ UNCHANGED clip_vars

NextConcurrent == \E j \in Jobs : JobStep(j)

SpecConcurrent == InitConcurrent /\ [][NextConcurrent]_vars

TypeOK ==
    /\ pc \in {"extract", "fetch", "duration", "loop", "download", "crop",
               "transcribe", "burn", "done", "error"}
    /\ i \in 0..Len(segments)
    /\ success_count \in 0..MAX_CLIPS

Last(q) == q[Len(q)]

\* the segments whose window process_clip accepts
AcceptedWindows ==
    {k \in 1..Len(segments) : ~WindowRejected(WindowOf(segments[k], duration))}

(***************************************************************************)
(* Properties                                                              *)
(***************************************************************************)

\* C1: full_process hands the ranked candidates to process_clip in ranked
\* order, each once (visited is 1, 2, .., i), and stops as soon as MAX_CLIPS
\* successes are reached or the list is exhausted: the list of clips has one
\* entry per candidate that reached a success state, never more than
\* MAX_CLIPS and never more than the accepted windows; the candidate taken
\* last when the quota is full is the one that filled it; and a finished run
\* produced min(MAX_CLIPS, candidates in a success state) clips.
C1_RankedOrderQuota ==
    /\ visited = [k \in 1..i |-> k]
    /\ Len(generated_files) = success_count
    /\ success_count <= MAX_CLIPS
    /\ success_count <= Cardinality(AcceptedWindows)
    /\ success_count = MAX_CLIPS => state \in SuccessStates /\ pc \in {"loop", "done"}
    /\ pc = "done" =>
          /\ Len(generated_files) = Min(MAX_CLIPS, final_count)
          /\ success_count = MAX_CLIPS \/ i = Len(segments)

\* 12 candidates, 2 of them window-rejected, give exactly 10 clips
C1_Witness ==
    /\ pc = "done"
    /\ Len(segments) = 12
    /\ Cardinality(AcceptedWindows) = 10
    /\ Len(generated_files) = 10
    /\ i = 12

\* C2: a candidate whose window is rejected, whose download exits non-zero
\* or leaves no file, or whose crop exits non-zero ends as Skipped: the
\* success count and the result list are unchanged and full_process is back
\* in its loop (it neither fails nor ends the run).
C2_SkipCase ==
    \/ i' = i + 1 /\ WindowRejected(window')
    \/ /\ Len(stages') = Len(stages) + 1
       /\ Last(stages').stage \in {"download", "crop"}
       /\ ~Last(stages').ok

C2_SkippedNotFatal ==
    [][C2_SkipCase =>
          /\ state' = "Skipped"
          /\ success_count' = success_count
          /\ generated_files' = generated_files
          /\ pc' = "loop"
          /\ failure' = "none"]_vars

\* a candidate was skipped after its crop failed, with clips already made
\* and candidates still to come
C2_Witness ==
    /\ pc = "loop"
    /\ state = "Skipped"
    /\ Len(stages) = 2
    /\ ~stages[2].ok
    /\ success_count >= 1
    /\ i < Len(segments)

\* C3: if the crop succeeded but caption generation or the burn-in fails,
\* the candidate still ends in a success state counted toward the quota and
\* its output clip is the cropped media without captions; the clips counted
\* are as many as the candidates whose crop succeeded.
C3_CaptionFailed ==
    /\ pc = "loop"
    /\ stages # << >>
    /\ Last(stages).stage \in {"transcribe", "burn"}
    /\ ~Last(stages).ok

C3_CaptionFailureKeepsCroppedClip ==
    /\ C3_CaptionFailed =>
          /\ state = "FinalizedWithoutCaption"
          /\ Last(generated_files) = files.index
          /\ files.clip = "cropped"
    /\ pc \in {"loop", "done"} => success_count = crop_ok_count

\* C4: an invalid source reference, a page without a marker array or a
\* failed duration lookup (like every other fatal condition) ends the run
\* with an error: no clip is produced and no download, crop, transcription
\* or burn-in tool has been invoked.
C4_FatalNoClips ==
    /\ failure # "none" => pc = "error"
    /\ pc = "error" =>
          /\ failure # "none"
          /\ invoked = {}
          /\ generated_files = << >>
          /\ success_count = 0
          /\ i = 0
          /\ files = NoFiles(1)
    /\ page.kind = "no_markers" => failure = "no_markers"

\* the duration lookup exited non-zero after segments had been found
C4_Witness ==
    /\ pc = "error"
    /\ failure = "exit_nonzero"
    /\ Len(segments) >= 2

\* C5: the stages of a candidate run in the order download, crop,
\* transcribe, burn-in, each one only after the previous one succeeded; a
\* captioned clip has passed all four and every clip has passed download
\* and crop; a stage runs only for the current, unfinished candidate, and
\* the next candidate is taken only when the current one is Finalized,
\* FinalizedWithoutCaption or Skipped.
C5_StageNames == << "download", "crop", "transcribe", "burn" >>

C5_StageOrder ==
    /\ Len(stages) <= 4
    /\ \A k \in 1..Len(stages) :
          /\ stages[k].stage = C5_StageNames[k]
          /\ k < Len(stages) => stages[k].ok
    /\ state \in SuccessStates => Len(stages) >= 2 /\ stages[2].ok
    /\ files.clip = "captioned" => Len(stages) = 4 /\ stages[4].ok
    /\ pc \in {"download", "crop", "transcribe", "burn"} => state \notin TerminalStates
    /\ pc = "loop" /\ i > 0 => state \in TerminalStates

C5_SequentialStages ==
    [][/\ C5_StageOrder'
       /\ i' # i => i' = i + 1 /\ (i = 0 \/ state \in TerminalStates)
       /\ (stages' # stages /\ stages' # << >>) =>
             /\ i' = i
             /\ state \notin TerminalStates
             /\ Len(stages') = Len(stages) + 1]_vars

\* the second candidate went through all four stages
C5_Witness ==
    /\ i = 2
    /\ Len(stages) = 4
    /\ stages[4].ok
    /\ state = "Finalized"

\* C6: a window handed to the download step has start >= 0, end <= total
\* duration and end - start >= 3.0, with start = max(0, segment.start - 10)
\* and end = min(total, segment.start + segment.duration + 10); for a window
\* shorter than 3.0 no external tool is invoked.
C6_HandedToDownload == i > 0 /\ (pc = "download" \/ stages # << >>)

C6_DownloadedWindowValid ==
    /\ C6_HandedToDownload =>
          /\ window.start >= 0
          /\ window.end <= duration * 1000
          /\ window.end - window.start >= MIN_WINDOW
          /\ window.start = Max(0, segments[i].start - PADDING)
          /\ window.end = Min(duration * 1000,
                              segments[i].start + segments[i].duration + PADDING)
    /\ (i > 0 /\ window.end - window.start < MIN_WINDOW) =>
          /\ stages = << >>
          /\ state = "Skipped"
          /\ pc \in {"loop", "done"}

\* a window clamped at the end of the video is being downloaded
C6_Witness ==
    /\ pc = "download"
    /\ window.end = duration * 1000
    /\ window.start > 0

\* C7 as stated: every computed window, rejected ones included, satisfies
\* 0 <= start <= end <= totalDuration.
C7_WindowOrdered ==
    i > 0 => /\ 0 <= window.start
             /\ window.start <= window.end
             /\ window.end <= duration * 1000

\* C7 amended: every computed window satisfies 0 <= start and
\* end <= totalDuration; start <= end holds when the segment starts no later
\* than PADDING past the end of the video, and a window with start > end has
\* end = totalDuration and is rejected.
C7_WindowClamped ==
    i > 0 => /\ 0 <= window.start
             /\ window.end <= duration * 1000
             /\ segments[i].start - PADDING <= duration * 1000
                   => window.start <= window.end
             /\ window.start > window.end
                   => /\ window.end = duration * 1000
                      /\ state = "Skipped"
                      /\ stages = << >>

\* a window that is rejected although it is well ordered
C7_Witness ==
    /\ i > 0
    /\ state = "Skipped"
    /\ stages = << >>
    /\ 0 < window.start
    /\ window.start < window.end
    /\ window.end = duration * 1000

\* C10: TOP_HEIGHT + BOTTOM_HEIGHT = OUTPUT_HEIGHT, so that the frame cropped
\* in a split mode is OUTPUT_WIDTH x OUTPUT_HEIGHT = 720 x 1280.
C10_SplitFrameIsCanvas ==
    (is_complex_filter(options.crop_mode) /\ crop_ok_count > 0) =>
        /\ TOP_HEIGHT + BOTTOM_HEIGHT = OUTPUT_HEIGHT
        /\ frame = << OUTPUT_WIDTH, OUTPUT_HEIGHT >>

\* C8: the list returned by fetch_heatmap holds no marker whose score is
\* below 0.40 (an unparsable score counts as 0.0); every segment of it has
\* score >= 0.40 and duration <= 60.0, and a kept marker with a longer
\* duration is in the list with its duration capped to 60.0.
C8_MarkerDuration(data) == unwrap_or(parse_val(data.durationMillis), 0)

C8_FilteredAndCapped ==
    page.kind = "ok" =>
        /\ \A k \in 1..Len(segments) :
              /\ segments[k].score >= MIN_SCORE
              /\ segments[k].duration <= MAX_DURATION
        /\ \A m \in 1..Len(page.markers) :
              LET data == MarkerData(page.markers[m])
                  kept == {k \in 1..Len(segments) : segments[k].src = m}
              IN /\ MarkerScore(data) < MIN_SCORE => kept = {}
                 /\ (HasAllFields(data) /\ MarkerScore(data) >= MIN_SCORE) =>
                       /\ Cardinality(kept) = 1
                       /\ C8_MarkerDuration(data) > MAX_DURATION =>
                             \A k \in kept : segments[k].duration = MAX_DURATION

\* a marker was dropped for its score and another was kept with a capped
\* duration
C8_Witness ==
    /\ page.kind = "ok"
    /\ Len(segments) = 2
    /\ Len(page.markers) = 3
    /\ \E m \in 1..3 : /\ HasAllFields(MarkerData(page.markers[m]))
                       /\ MarkerScore(MarkerData(page.markers[m])) < MIN_SCORE
    /\ \E k \in 1..2 : /\ segments[k].duration = MAX_DURATION
                       /\ C8_MarkerDuration(MarkerData(page.markers[segments[k].src]))
                             > MAX_DURATION

\* C9: the list returned by fetch_heatmap is ordered by non-increasing
\* score, and segments of equal score keep the order in which their markers
\* were received.
C9_SortedStable ==
    \A a \in 1..Len(segments), b \in 1..Len(segments) :
        a < b => /\ segments[a].score >= segments[b].score
                 /\ segments[a].score = segments[b].score
                       => segments[a].src < segments[b].src

\* the marker received first has the lowest score and went last, behind two
\* markers of equal score
C9_Witness ==
    /\ Len(segments) = 3
    /\ segments[1].score = segments[2].score
    /\ segments[2].score > segments[3].score
    /\ segments[3].src = 1

\* C11: the filters of SplitLeft and SplitRight handed to the crop command
\* are the same graph except for the horizontal offset of the bottom crop,
\* which is 0 for SplitLeft and iw - 720 for SplitRight.
BottomX(filter) == filter.crops[2].x

WithBottomX(filter, x) == [filter EXCEPT !.crops[2].x = x]

C11_SplitFiltersDifferOnlyInBottomX ==
    (pc # "extract" /\ crop_cmd # NoCommand /\ is_complex_filter(options.crop_mode))
        => /\ crop_cmd.filter = get_ffmpeg_filter(options.crop_mode)
           /\ WithBottomX(crop_cmd.filter, Expr("0", 0, 1))
                  = get_ffmpeg_filter("SplitLeft")
           /\ WithBottomX(crop_cmd.filter, Expr("iw", OUTPUT_WIDTH, 1))
                  = get_ffmpeg_filter("SplitRight")
           /\ BottomX(crop_cmd.filter)
                  = IF options.crop_mode = "SplitLeft" THEN Expr("0", 0, 1)
                    ELSE Expr("iw", OUTPUT_WIDTH, 1)
           /\ BottomX(get_ffmpeg_filter("SplitLeft"))
                  # BottomX(get_ffmpeg_filter("SplitRight"))

C11_Witness ==
    /\ options.crop_mode = "SplitRight"
    /\ crop_cmd # NoCommand
    /\ state = "Cropped"

\* C12: is_complex_filter holds exactly for SplitLeft and SplitRight, and
\* the crop command takes the graph form (-filter_complex with the maps
\* [out] and 0:a?) exactly when it holds, the -vf form otherwise.
C12_GraphFormIffComplex ==
    crop_cmd # NoCommand
        => /\ is_complex_filter(options.crop_mode)
                 <=> options.crop_mode \in {"SplitLeft", "SplitRight"}
           /\ ~is_complex_filter("Default")
           /\ IF options.crop_mode \in {"SplitLeft", "SplitRight"}
              THEN /\ crop_cmd.flag = "-filter_complex"
                   /\ crop_cmd.maps = << "[out]", "0:a?" >>
              ELSE /\ crop_cmd.flag = "-vf"
                   /\ crop_cmd.maps = << >>

C12_Witness ==
    /\ crop_cmd.flag = "-vf"
    /\ \E k \in 1..Len(stages) : stages[k].stage = "crop"

(***************************************************************************)
(* parse_whisper_json                                                      *)
(***************************************************************************)
WasParsed == parsed # NotParsed

IsInt(v) == v.k = "num"

\* the entry of the document a word of the result was read from
SegmentAt(src) == artifact.transcription.items[src[1]]
TokenAt(src) == SegmentAt(src).tokens.items[src[2]]
FromToken(src) == SegmentAt(src).tokens.k = "array"

\* C13: no word of the result is empty after trimming or begins with the
\* marker characters [ or <, whichever format its entry had.
C13_NoEmptyOrMarkerWord ==
    \A k \in 1..Len(parsed.words) :
        /\ trim(parsed.words[k].text) # << >>
        /\ parsed.words[k].text[1] \notin {"[", "<"}

\* C14: a token with integer t0 and t1 gives start = t0 / 100 and
\* end = t1 / 100 seconds, whether or not it also has offsets; any other
\* token of the result has integer offsets and gives from / 1000 and
\* to / 1000; tokens of the two formats that state one instant get the same
\* seconds.
ViaCentiseconds(src) == IsInt(TokenAt(src).t0) /\ IsInt(TokenAt(src).t1)

C14_FirstMatchingFormat ==
    /\ \A k \in 1..Len(parsed.words) :
          FromToken(parsed.srcs[k]) =>
              LET token == TokenAt(parsed.srcs[k])
                  word == parsed.words[k]
              IN IF ViaCentiseconds(parsed.srcs[k])
                 THEN /\ word.start * 100 = token.t0.v * 1000
                      /\ word.end * 100 = token.t1.v * 1000
                 ELSE /\ IsInt(token.offsets.from) /\ IsInt(token.offsets.to)
                      /\ word.start * 1000 = token.offsets.from.v * 1000
                      /\ word.end * 1000 = token.offsets.to.v * 1000
    /\ \A j, k \in 1..Len(parsed.words) :
          (/\ FromToken(parsed.srcs[j]) /\ FromToken(parsed.srcs[k])
           /\ ViaCentiseconds(parsed.srcs[j]) /\ ~ViaCentiseconds(parsed.srcs[k])
           /\ TokenAt(parsed.srcs[j]).t0.v * 10 = TokenAt(parsed.srcs[k]).offsets.from.v)
              => parsed.words[j].start = parsed.words[k].start

C14_Witness ==
    /\ Len(parsed.words) = 3
    /\ \A k \in 1..3 : FromToken(parsed.srcs[k])
    /\ ViaCentiseconds(parsed.srcs[1]) /\ ~IsInt(TokenAt(parsed.srcs[1]).offsets.from)
    /\ ~ViaCentiseconds(parsed.srcs[2])
    /\ parsed.words[1].start = parsed.words[2].start
    /\ ViaCentiseconds(parsed.srcs[3]) /\ IsInt(TokenAt(parsed.srcs[3]).offsets.from)

\* C15: parse_whisper_json fails only when the artifact cannot be read or
\* is not JSON.  Every JSON document gives success, with a list that may be
\* empty: entries of no recognized shape are skipped and the words of the
\* other entries are kept in the order of the document.
Before(a, b) == a[1] < b[1] \/ (a[1] = b[1] /\ a[2] < b[2])

HasTimes(token) ==
    \/ IsInt(token.t0) /\ IsInt(token.t1)
    \/ IsInt(token.offsets.from) /\ IsInt(token.offsets.to)

\* the entries of a recognized shape whose text is a word
MatchedTokens ==
    { << si, k >> \in (1..MaxSegments + 1) \X (1..MaxTokens + 1) :
         /\ artifact.transcription.k = "array"
         /\ si <= Len(artifact.transcription.items)
         /\ FromToken(<< si, k >>)
         /\ k <= Len(SegmentAt(<< si, k >>).tokens.items)
         /\ TokenAt(<< si, k >>).text.k = "string"
         /\ HasTimes(TokenAt(<< si, k >>))
         /\ keeps_token(trim(TokenAt(<< si, k >>).text.s)) }

Recognized(src) ==
    IF FromToken(src)
    THEN src \in MatchedTokens
    ELSE /\ SegmentAt(src).text.k = "string"
         /\ parse_ts(SegmentAt(src).timestamps.from.s) # << >>
         /\ parse_ts(SegmentAt(src).timestamps.to.s) # << >>
         /\ src[2] <= Len(split_whitespace(SegmentAt(src).text.s))

C15_FailsOnlyOnUnreadable ==
    WasParsed =>
        /\ parsed.status = "Err" <=> artifact.kind \in {"unreadable", "not_json"}
        /\ artifact.kind = "json" => parsed.status = "Ok"
        /\ Len(parsed.srcs) = Len(parsed.words)
        /\ \A k \in 1..Len(parsed.srcs) : Recognized(parsed.srcs[k])
        /\ \A j, k \in 1..Len(parsed.srcs) :
              j < k => Before(parsed.srcs[j], parsed.srcs[k])
        /\ \A src \in MatchedTokens :
              \E k \in 1..Len(parsed.srcs) :
                  /\ parsed.srcs[k] = src
                  /\ parsed.words[k].text = trim(TokenAt(src).text.s)

C15_Witness ==
    /\ parsed.status = "Ok"
    /\ Len(artifact.transcription.items) = 2
    /\ Len(parsed.words) = 2
    /\ parsed.srcs[1] = << 1, 2 >>
    /\ parsed.srcs[2][1] = 2

\* C16 as stated: every word of the result has start <= end.
C16_StartLeEnd ==
    \A k \in 1..Len(parsed.words) : parsed.words[k].start <= parsed.words[k].end

\* C16 amended: a word of the result has start <= end whenever the
\* timestamps of its entry are in order; the timestamps of an entry are
\* forwarded as they are, so an entry that ends before it starts gives a
\* word with end < start.
SourceTimes(src) ==
    IF FromToken(src)
    THEN IF ViaCentiseconds(src)
         THEN << TokenAt(src).t0.v, TokenAt(src).t1.v >>
         ELSE << TokenAt(src).offsets.from.v, TokenAt(src).offsets.to.v >>
    ELSE << parse_ts(SegmentAt(src).timestamps.from.s)[1],
            parse_ts(SegmentAt(src).timestamps.to.s)[1] >>

C16_OrderedWhenSourceOrdered ==
    \A k \in 1..Len(parsed.words) :
        LET t == SourceTimes(parsed.srcs[k])
        IN /\ t[1] <= t[2] => parsed.words[k].start <= parsed.words[k].end
           /\ t[1] > t[2] => parsed.words[k].start > parsed.words[k].end

C16_Witness ==
    /\ Len(parsed.words) = 4
    /\ ~FromToken(parsed.srcs[1])
    /\ parsed.words[1].start < parsed.words[1].end
    /\ parsed.words[4].start > parsed.words[4].end

(***************************************************************************)
(* generate_ass_with_word_highlight                                        *)
(***************************************************************************)
Rendered == events.status = "Ok"

RECURSIVE Concat(_)
Concat(ps) == IF ps = << >> THEN << >> ELSE Head(ps) \o Concat(Tail(ps))

\* C17: the phrases are a partition of the input words into contiguous
\* runs: concatenated in output order they are the input sequence.
C17_PhrasesPartitionWords ==
    Rendered => Concat(phrases) = words

C17_Witness ==
    /\ Rendered
    /\ Len(words) = 4
    /\ Len(phrases) = 3
    /\ Len(phrases[3]) = 1
    /\ ~has_punctuation(phrases[3][1])

\* C18: every phrase has between one and three words, and a phrase of
\* fewer than three words was closed by the character limit or by a
\* punctuation break, or is the trailing phrase of the input.
RECURSIVE CharsOf(_)
CharsOf(phrase_words) ==
    IF phrase_words = << >> THEN 0
    ELSE len(Head(phrase_words).text) + 1 + CharsOf(Tail(phrase_words))

RECURSIVE EventsBefore(_)
EventsBefore(p) == IF p <= 1 THEN 0 ELSE EventsBefore(p - 1) + Len(phrases[p - 1]) + 1

PhraseEvent(p, k) == events.lines[EventsBefore(p) + k]

IsWordEvent(e, k) ==
    \A j \in 1..Len(e.text) : e.text[j].style = "active" <=> j = k

IsSettledEvent(e) == \A j \in 1..Len(e.text) : e.text[j].style = "settled"

\* the part of C19 on the number, order and start of the events and on the
\* trailing event
EventsOfPhrases ==
    /\ Len(events.lines) = EventsBefore(Len(phrases) + 1)
    /\ \A p \in 1..Len(phrases) :
          LET n == Len(phrases[p])
          IN /\ \A k \in 1..n :
                   /\ IsWordEvent(PhraseEvent(p, k), k)
                   /\ PhraseEvent(p, k).start = phrases[p][k].start
                   /\ PhraseEvent(p, k).end > PhraseEvent(p, k).start
             /\ IsSettledEvent(PhraseEvent(p, n + 1))
             /\ PhraseEvent(p, n + 1).start = phrases[p][n].end
             /\ PhraseEvent(p, n + 1).end = phrases[p][n].end + 500

\* C19 as stated: a phrase of n words gives n word events and one trailing
\* settled event; event k starts at the start of word k and ends at its
\* end, or at start + 0.1 when the end is not after the start; the trailing
\* event spans [last.end, last.end + 0.5].
C19_EndsAtWordEndUnlessNotAfterStart ==
    Rendered =>
        /\ EventsOfPhrases
        /\ \A p \in 1..Len(phrases) : \A k \in 1..Len(phrases[p]) :
              PhraseEvent(p, k).end =
                  IF phrases[p][k].end > phrases[p][k].start
                  THEN phrases[p][k].end
                  ELSE phrases[p][k].start + 100

\* C19 amended: as above, but event k ends at the later of the end of
\* word k and its start + 0.1, so that a word shorter than 0.1 s is also
\* shown for 0.1 s and every word event lasts at least 0.1 s.
C19_EndsAtWordEndOrFloor ==
    Rendered =>
        /\ EventsOfPhrases
        /\ \A p \in 1..Len(phrases) : \A k \in 1..Len(phrases[p]) :
              /\ PhraseEvent(p, k).end
                    = Max(phrases[p][k].end, phrases[p][k].start + 100)
              /\ PhraseEvent(p, k).end - PhraseEvent(p, k).start >= 100

C19_Witness ==
    /\ Rendered
    /\ Len(phrases) = 2
    /\ Len(phrases[1]) = 3
    /\ phrases[1][1].end - phrases[1][1].start = 50
    /\ phrases[1][2].end = phrases[1][2].start
    /\ phrases[1][3].end - phrases[1][3].start = 300
    /\ Len(events.lines) = 6

(***************************************************************************)
(* format_ass_time                                                         *)
(***************************************************************************)
TwoDigits(n) == << Digit(n \div 10), Digit(n % 10) >>

\* H:MM:SS.cc for a time of `seconds` milliseconds and centiseconds cc
Serialized(cc) ==
    display(seconds \div 3600000) \o << ":" >>
        \o TwoDigits((seconds % 3600000) \div 60000) \o << ":" >>
        \o TwoDigits((seconds % 60000) \div 1000) \o << "." >>
        \o TwoDigits(cc)

\* C20: a time is written H:MM:SS.cc, hours unpadded and the other fields
\* on two digits, with cc = round(fractional seconds * 100); 3725.07 is
\* written 1:02:05.07 and 0.0 is written 0:00:00.00.
C20_CentisecondsRounded ==
    ass_time # << >> =>
        /\ ((seconds % 1000) + 5) \div 10 < 100
              => ass_time = Serialized(((seconds % 1000) + 5) \div 10)
        /\ seconds = 3725070 =>
              ass_time = << "1", ":", "0", "2", ":", "0", "5", ".", "0", "7" >>
        /\ seconds = 0 =>
              ass_time = << "0", ":", "0", "0", ":", "0", "0", ".", "0", "0" >>

(***************************************************************************)
(* The result of a run                                                     *)
(***************************************************************************)
Response == ProcessResponse(ResultOf(generated_files), options)

\* what the response states about counts and about captions: the length
\* of its list of clips, and the caption flag of its options
CountsReported(r) == {Len(r.files)}
CaptionReported(r) == r.options.subtitle_enabled

\* C21: the result of a successful run reports the number of clips
\* produced and the number of candidates considered, and states for each
\* clip whether captions were applied or skipped.
C21_ResultReportsCountsAndCaptions ==
    (pc = "done" /\ state \in SuccessStates) =>
        /\ success_count \in CountsReported(Response)
        /\ Len(visited) \in CountsReported(Response)
        /\ CaptionReported(Response)
              <=> (options.subtitle_enabled /\ state = "Finalized")

\* a string that writes an unsigned number the plain way: digits only, no
\* leading zero
IsPlainNumber(v) ==
    /\ v.k = "str"
    /\ v.s # << >>
    /\ \A k \in 1..Len(v.s) : IsDigit(v.s[k])
    /\ Len(v.s) > 1 => v.s[1] # "0"

\* a value no number can be read from: a JSON value that is neither a number
\* nor a string, or a string with a character no number is written with
NoNumberIn(v) ==
    \/ v.k = "other"
    \/ /\ v.k = "str"
       /\ \/ v.s = << >>
          \/ \E k \in 1..Len(v.s) : v.s[k] \in Whitespace \cup {"/", "n", "a"}

\* x is what the field v holds: the number itself, the number a plain
\* numeric string writes, or 0 where no number can be read
ReadsAs(v, x) ==
    /\ v.k = "num" => x = v.v
    /\ IsPlainNumber(v) => display(x) = v.s
    /\ NoNumberIn(v) => x = 0

\* C22: in fetch_heatmap a start, duration or score written as a numeric
\* string is read like the same native number and a value that is no number
\* is read as 0.0; a received array never fails for a bad field, and every
\* marker of it that has the three fields and a score of at least 0.40 so
\* read is in the list whatever the other markers hold.
C22_NumericStringsAndBadFields ==
    page.kind = "ok" =>
        /\ failure \in {"none", "no_segments"}
        /\ failure = "no_segments" <=> segments = << >>
        /\ \A k \in 1..Len(segments) :
              LET data == MarkerData(page.markers[segments[k].src])
              IN /\ ReadsAs(data.startMillis, segments[k].start)
                 /\ ReadsAs(data.intensityScoreNormalized, segments[k].score)
                 /\ segments[k].duration < MAX_DURATION =>
                       ReadsAs(data.durationMillis, segments[k].duration)
        /\ \A m \in 1..Len(page.markers) :
              LET data == MarkerData(page.markers[m])
              IN (/\ HasAllFields(data)
                  /\ \E x \in MIN_SCORE..100 : 
                        /\ ReadsAs(data.intensityScoreNormalized, x)
                        /\ data.intensityScoreNormalized.k = "num"
                              \/ IsPlainNumber(data.intensityScoreNormalized))
                 => \E k \in 1..Len(segments) : segments[k].src = m

\* an array of three markers gave two segments: one of a marker whose start
\* and duration are no numbers, read as 0, and one of a marker whose start
\* and score are numeric strings; the third marker, whose score is no
\* number, was dropped
C22_Witness ==
    /\ page.kind = "ok"
    /\ Len(page.markers) = 3
    /\ Len(segments) = 2
    /\ \E k \in 1..2 :
          LET data == MarkerData(page.markers[segments[k].src])
          IN /\ NoNumberIn(data.startMillis) /\ NoNumberIn(data.durationMillis)
             /\ segments[k].start = 0 /\ segments[k].duration = 0
    /\ \E k \in 1..2 :
          LET data == MarkerData(page.markers[segments[k].src])
          IN /\ IsPlainNumber(data.startMillis) /\ segments[k].start = 20000
             /\ IsPlainNumber(data.intensityScoreNormalized)
             /\ segments[k].score = MIN_SCORE
    /\ \E m \in 1..3 : NoNumberIn(MarkerData(page.markers[m]).intensityScoreNormalized)

\* the names of a crop mode, as the selector spells them in lower case
NamesOf(mode) ==
    CASE mode = "Default" -> { << "1" >>, << "d", "e", "f", "a", "u", "l", "t" >> }
      [] mode = "SplitLeft" ->
            { << "2" >>,
              << "s", "p", "l", "i", "t", "-", "l", "e", "f", "t" >>,
              << "s", "p", "l", "i", "t", "_", "l", "e", "f", "t" >>,
              << "s", "p", "l", "i", "t", "l", "e", "f", "t" >> }
      [] mode = "SplitRight" ->
            { << "3" >>,
              << "s", "p", "l", "i", "t", "-", "r", "i", "g", "h", "t" >>,
              << "s", "p", "l", "i", "t", "_", "r", "i", "g", "h", "t" >>,
              << "s", "p", "l", "i", "t", "r", "i", "g", "h", "t" >> }

\* the mode a selector names, if any
Named(pl) == {mode \in CropModes : pl.name # << >> /\ pl.name[1] \in NamesOf(mode)}

WordLevelGaveNothing ==
    /\ whisper.word_exit \in {"exit_nonzero", "ok"}
    /\ \/ whisper.word_exit = "exit_nonzero"
       \/ ~whisper.json_exists
       \/ parsed.status = "Err"
       \/ parsed.status = "Ok" /\ Len(parsed.words) = 0

WordLevelGaveWords ==
    /\ whisper.word_exit = "ok"
    /\ whisper.json_exists
    /\ parsed.status = "Ok"
    /\ Len(parsed.words) > 0

PlainRun == \E k \in 1..Len(whisper.runs) : whisper.runs[k] = "plain"

\* C24 (the order of the attempts): the plain transcription is run at most
\* once, after the word-level one, and only when the word-level attempt
\* gave no word; it is never run when the word-level attempt gave a word.
C24_PlainOnlyAfterWordLevelGaveNothing ==
    /\ PlainRun => (whisper.runs = << "word", "plain" >> /\ WordLevelGaveNothing)
    /\ WordLevelGaveWords => ~PlainRun

\* C24: the plain transcription is run only after the word-level attempt
\* gave no word and never when it gave one; when both attempts fail the
\* function returns an error, and the caller makes of it a clip without
\* captions, reported as generated, not a failed clip.
C24_FallbackChain ==
    /\ C24_PlainOnlyAfterWordLevelGaveNothing
    /\ (whisper.pc \in {"returned", "finished"} /\ PlainRun /\ ~whisper.plain_ok) =>
          whisper.result = "Err"
    /\ (whisper.pc = "finished" /\ whisper.result = "Err") =>
          /\ whisper.success
          /\ ~whisper.captioned
          /\ whisper.files.clip = "cropped"

EndsSentencePart(word) ==
    /\ Len(word.text) > 0
    /\ word.text[Len(word.text)] \in {".", ",", "?", "!"}

\* a break condition is met at the k-th word of the phrase
BreaksAt(phrase_words, k) ==
    \/ k >= 3
    \/ CharsOf(SubSeq(phrase_words, 1, k)) >= 20
    \/ EndsSentencePart(phrase_words[k])

WordCount(text) ==
    Cardinality({k \in 1..Len(text) :
                    /\ text[k] \notin Whitespace
                    /\ k = 1 \/ text[k - 1] \in Whitespace})

\* C26: a word read from a segment-level entry with timestamps [S, E] whose
\* text has n >= 1 words, the k-th of them counted from 0 over all n, has
\* start = S + k (E - S) / n and end = S + (k + 1) (E - S) / n; consecutive
\* words are contiguous, the first starts at S and the last ends at E; and
\* a word of an entry that has a tokens array is always read from one of
\* its matching tokens, never from the text of the entry.
C26_EvenSegmentTiming ==
    /\ \A k \in 1..Len(parsed.words) :
          LET src == parsed.srcs[k]
              word == parsed.words[k]
          IN IF FromToken(src)
             THEN src \in MatchedTokens
             ELSE LET S == SourceTimes(src)[1]
                      E == SourceTimes(src)[2]
                      n == WordCount(SegmentAt(src).text.s)
                      idx == src[2] - 1
                  IN /\ n >= 1 /\ idx < n
                     /\ word.start * n = S * n + idx * (E - S)
                     /\ word.end * n = S * n + (idx + 1) * (E - S)
                     /\ idx = 0 => word.start = S
                     /\ idx = n - 1 => word.end = E
    /\ \A j, k \in 1..Len(parsed.words) :
          (/\ ~FromToken(parsed.srcs[j])
           /\ parsed.srcs[k][1] = parsed.srcs[j][1]
           /\ parsed.srcs[k][2] = parsed.srcs[j][2] + 1)
          => parsed.words[k].start = parsed.words[j].end

\* the three words of "a b\tc " over [0, 1.2] were timed [0, 0.4],
\* [0.4, 0.8] and [0.8, 1.2], and an entry with a tokens array of which no
\* token matches gave no word although its text and timestamps are usable
C26_Witness ==
    /\ parsed.status = "Ok"
    /\ Len(artifact.transcription.items) = 2
    /\ Len(parsed.words) = 3
    /\ artifact.transcription.items[1].tokens.k = "array"
    /\ Len(artifact.transcription.items[1].tokens.items) = 1
    /\ artifact.transcription.items[1].text.k = "string"
    /\ \A k \in 1..3 : /\ parsed.srcs[k] = << 2, k >>
                       /\ parsed.words[k].start = (k - 1) * 400
                       /\ parsed.words[k].end = k * 400

C27_Numbered ==
    /\ ResultOf(generated_files)
          = [k \in 1..Len(generated_files) |-> << "clip_", k, ".mp4" >>]
    /\ Len(generated_files) <= 10
    /\ pc \in {"download", "crop", "transcribe", "burn"} =>
          files.index = Len(generated_files) + 1

\* C27: the list of full_process is clip_1.mp4, ..., clip_k.mp4 in that
\* order, k <= 10, at every step of a run and so at its end; the index of
\* the candidate in process is the number of successes so far plus one, so
\* that a candidate that follows a skipped one gets the index of the
\* skipped one and a candidate that follows a success the next index.
C27_ClipsNumberedInOrder ==
    [][/\ C27_Numbered'
       /\ (i' = i + 1 /\ i > 0) =>
             files'.index = IF state = "Skipped" THEN files.index
                            ELSE files.index + 1]_vars

\* the third candidate is being cropped under index 2: one of the first two
\* was skipped and the candidate after it took over its index
C27_Witness ==
    /\ pc = "crop"
    /\ i = 3
    /\ generated_files = << 1 >>
    /\ files.index = 2
    /\ files.temp # "none"

\* C28: whenever process_clip has reported success for index n, and
\* clip_n.mp4 has been added to the result, the file clip_n.mp4 exists,
\* also where the cropped file is moved into place by a rename whose outcome
\* is not checked.
C28_ReportedClipExists ==
    (pc = "loop" /\ i > 0 /\ state \in SuccessStates) =>
        /\ generated_files # << >>
        /\ Last(generated_files) = files.index
        /\ files.clip # "none"

\* C29: when process_clip has returned for index n, whatever the outcome,
\* neither temp_n.mp4 nor temp_cropped_n.mp4 is left, and a candidate that
\* starts under index n finds no temporary file of an earlier candidate.
C29_NoTemporaryFileLeft ==
    /\ (pc \in {"loop", "done"} /\ i > 0) =>
          /\ files.temp = "none"
          /\ files.cropped = "none"
    /\ pc = "download" =>
          /\ files.temp = "none"
          /\ files.cropped = "none"

\* C30: two runs executing at the same time with different output
\* directories never read, write or delete the same file, the temporary
\* files temp_<n>.* and temp_cropped_<n>.* included, also when their indices
\* overlap.
C30_RunsIsolated ==
    (jobs # NoJobs /\ jobs[1].output_dir # jobs[2].output_dir) =>
        \A a \in touched, b \in touched : a[1] # b[1] => a[2] # b[2]

====
